---- MODULE Spec2Model ----
(***************************************************************************)
(* A model of openai2claude-proxy's translation core                       *)
(* (src/openai_to_claude.ts): the non-streaming response translator        *)
(* mapOpenAIToClaude with its helpers, the request translator              *)
(* mapClaudeToOpenAI and the streaming reconstruction engine               *)
(* createClaudeStream; and of the handler handleMessages of src/index.ts.  *)
(*                                                                         *)
(* JavaScript values are encoded uniformly so that TLC can compare them:   *)
(*   - undefined and null are the distinct sentinels Undef and Null;       *)
(*   - an absent number is UndefNum;                                       *)
(*   - a parsed JSON value is a record [kind, fields];                     *)
(*   - every wire object is a record with all of its optional fields, the  *)
(*     absent ones holding Undef.                                          *)
(***************************************************************************)
EXTENDS Integers, Sequences, FiniteSets, TLC

----------------------------------------------------------------------------
(* Bounds of the model *)

\* number of nested content blocks of a message item
MaxContent == 2
\* number of output items of a non-streaming response
MaxItems == 3
\* number of lines (frames) the inbound stream delivers
MaxLines == 2
\* number of finish reasons handed to mapFinishReason in one run
MaxReasons == 2

----------------------------------------------------------------------------
(* JavaScript values *)

Undef == "<undefined>"
Null == "<null>"
UndefNum == -1

\* JavaScript truthiness of a string | null | undefined
Truthy(s) == s # Undef /\ s # Null /\ s # ""

\* a ?? b
Coalesce(a, b) == IF a = Undef \/ a = Null THEN b ELSE a

\* a || b on strings
OrElse(a, b) == IF Truthy(a) THEN a ELSE b

\* a ?? b on numbers
CoalesceNum(a, b) == IF a = UndefNum THEN b ELSE a

JNull == [kind |-> "null", fields |-> <<>>]
JObject(fields) == [kind |-> "object", fields |-> fields]

----------------------------------------------------------------------------
(* Wire objects *)

\* an output item or a nested content block of the Back-Protocol
Blk(t) ==
  [type |-> t, id |-> Undef, call_id |-> Undef, name |-> Undef,
   arguments |-> Undef, text |-> Undef, reasoning |-> Undef,
   summary |-> Undef, signature |-> Undef, data |-> Undef,
   query |-> Undef, max_results |-> UndefNum,
   search_context_size |-> Undef, user_location |-> Undef,
   results |-> Undef, output |-> Undef, content |-> Undef,
   stop_reason |-> Undef]

\* a message item: content is the sequence of its nested blocks
Msg(blocks, stop) ==
  [Blk("message") EXCEPT !.id = "msg_1", !.content = blocks,
                         !.stop_reason = stop]

\* a Front-Protocol content block
ClaudeBlk(t) ==
  [type |-> t, text |-> Undef, id |-> Undef, name |-> Undef,
   input |-> JNull, tool_use_id |-> Undef, content |-> Undef,
   thinking |-> Undef, data |-> Undef, signature |-> Undef]

NoUsage ==
  [present |-> FALSE, input_tokens |-> UndefNum, output_tokens |-> UndefNum,
   prompt_tokens |-> UndefNum, completion_tokens |-> UndefNum,
   reasoning_tokens |-> UndefNum]

NoClaudeUsage ==
  [present |-> FALSE, input_tokens |-> UndefNum, output_tokens |-> UndefNum,
   reasoning_tokens |-> UndefNum, web_search_requests |-> UndefNum]

----------------------------------------------------------------------------
(* Helpers of the translators *)

mapOpenAIUsageToClaude(usage) ==
  IF ~usage.present THEN NoClaudeUsage
  ELSE [present |-> TRUE,
        input_tokens |-> CoalesceNum(usage.input_tokens, usage.prompt_tokens),
        output_tokens |->
          CoalesceNum(usage.output_tokens, usage.completion_tokens),
        reasoning_tokens |-> usage.reasoning_tokens,
        web_search_requests |-> UndefNum]

getReasoningText(block) ==
  Coalesce(block.text, Coalesce(block.reasoning, Coalesce(block.summary, "")))

\* the return value null of mapReasoningBlockToClaude
NoBlock == ClaudeBlk("<none>")

mapReasoningBlockToClaude(block) ==
  IF block.type = "reasoning" \/ block.type = "output_reasoning"
  THEN [ClaudeBlk("thinking") EXCEPT
          !.thinking = Coalesce(block.text,
                         Coalesce(block.reasoning,
                           Coalesce(block.summary, ""))),
          !.signature = IF Truthy(block.signature) THEN block.signature
                        ELSE Undef]
  ELSE IF block.type = "redacted_reasoning" /\ Truthy(block.data)
  THEN [ClaudeBlk("redacted_thinking") EXCEPT
          !.data = block.data,
          !.signature = IF Truthy(block.signature) THEN block.signature
                        ELSE Undef]
  ELSE NoBlock

getWebSearchCallId(block) == OrElse(block.call_id, OrElse(block.id, "web_search"))

IsWebSearch(block) ==
  block.type = "web_search_call" \/ block.type = "web_search_result"

\* the inner loop of countWebSearchRequests over a message item's content;
\* acc = [ids, fallbackCount]
RECURSIVE countBlocks(_, _, _)
countBlocks(blocks, i, acc) ==
  IF i > Len(blocks) THEN acc
  ELSE LET block == blocks[i]
           callId == getWebSearchCallId(block)
           next == IF IsWebSearch(block)
                   THEN IF Truthy(callId)
                        THEN [acc EXCEPT !.ids = @ \cup {callId}]
                        ELSE [acc EXCEPT !.fallbackCount = @ + 1]
                   ELSE acc
       IN countBlocks(blocks, i + 1, next)

RECURSIVE countItems(_, _, _)
countItems(items, i, acc) ==
  IF i > Len(items) THEN acc
  ELSE LET item == items[i]
           callId == getWebSearchCallId(item)
           a1 == IF IsWebSearch(item)
                 THEN IF Truthy(callId)
                      THEN [acc EXCEPT !.ids = @ \cup {callId}]
                      ELSE [acc EXCEPT !.fallbackCount = @ + 1]
                 ELSE acc
           a2 == IF item.type = "message"
                 THEN countBlocks(item.content, 1, a1)
                 ELSE a1
       IN countItems(items, i + 1, a2)

countWebSearchRequests(items) ==
  LET acc == countItems(items, 1, [ids |-> {}, fallbackCount |-> 0])
  IN IF Cardinality(acc.ids) > 0 THEN Cardinality(acc.ids)
     ELSE acc.fallbackCount

attachToolUseUsage(usage, webSearchRequests) ==
  IF ~usage.present /\ webSearchRequests = 0 THEN usage
  ELSE [usage EXCEPT
          !.present = TRUE,
          !.web_search_requests =
             IF webSearchRequests > 0 THEN webSearchRequests ELSE UndefNum]

\* mapFinishReason without the mapping of "length"
mapFinishReason_noLength(reason) ==
  IF ~Truthy(reason) THEN Null
  ELSE IF reason = "stop" THEN "end_turn"
  ELSE IF reason = "tool_calls" THEN "tool_use"
  ELSE reason

mapFinishReason(reason) ==
  IF ~Truthy(reason) THEN Null
  ELSE IF reason = "stop" THEN "end_turn"
  ELSE IF reason = "length" THEN "max_tokens"
  ELSE IF reason = "tool_calls" THEN "tool_use"
  ELSE reason

\* JSON.parse on the argument strings the model uses; JNull stands for both
\* a falsy input and a SyntaxError, which safeJsonParse turns into null
safeJsonParse(value) ==
  IF ~Truthy(value) THEN JNull
  ELSE IF value = "{}" THEN JObject(<<>>)
  ELSE IF value = "{\"q\":\"tla\"}" THEN JObject(<< <<"q", "tla">> >>)
  ELSE IF value = "{\"filePath\":\"/tmp/file.txt\",\"pages\":\"\"}"
  THEN JObject(<< <<"filePath", "/tmp/file.txt">>, <<"pages", "">> >>)
  ELSE JNull

parseToolArguments(value) ==
  IF safeJsonParse(value) = JNull THEN JObject(<<>>) ELSE safeJsonParse(value)

stringifyToolResult(value) ==
  IF value = Undef \/ value = Null THEN "" ELSE value

buildWebSearchInput(block) ==
  LET parsed == safeJsonParse(block.arguments)
      f1 == IF block.query # Undef
            THEN << <<"query", block.query>> >> ELSE <<>>
      f2 == IF block.max_results # UndefNum
            THEN << <<"max_results", "<number>">> >> ELSE <<>>
      f3 == IF block.search_context_size # Undef
            THEN << <<"search_context_size", block.search_context_size>> >>
            ELSE <<>>
      f4 == IF block.user_location # Undef
            THEN << <<"user_location", block.user_location>> >> ELSE <<>>
  IN IF parsed # JNull THEN parsed ELSE JObject(f1 \o f2 \o f3 \o f4)

----------------------------------------------------------------------------
(* mapOpenAIToClaude *)

\* model.includes(k) for the model names and table keys of the model
ModelIncludes(model, k) ==
  \/ model = k
  \/ model = "gpt-5.2-codex" /\ k = "gpt-5.2"
  \/ model = "gpt-5.2-thinking" /\ k = "gpt-5.2"

GPT5_MODEL_KEYS ==
  <<"gpt-5.2", "gpt-5.2-thinking", "gpt-5.3-codex", "gpt-5-mini", "gpt-5-pro">>

GPT5_MODEL_MAXOUTPUT(k) == IF k = "gpt-5-pro" THEN 272000 ELSE 128000

\* maxOutput of the first table key the model name contains; 0 for null
getDownstreamConfig(model) ==
  LET hits == {i \in 1..Len(GPT5_MODEL_KEYS) :
                 ModelIncludes(model, GPT5_MODEL_KEYS[i])}
  IN IF hits = {} THEN 0
     ELSE GPT5_MODEL_MAXOUTPUT(
            GPT5_MODEL_KEYS[CHOOSE i \in hits : \A j \in hits : i <= j])

\* openai.output.find(item => item.type === "message"); 0 when there is none
FindMessage(output) ==
  LET hits == {i \in 1..Len(output) : output[i].type = "message"}
  IN IF hits = {} THEN 0 ELSE CHOOSE i \in hits : \A j \in hits : i <= j

WebSearchToolUse(block) ==
  [ClaudeBlk("tool_use") EXCEPT !.id = getWebSearchCallId(block),
                                !.name = "web_search",
                                !.input = buildWebSearchInput(block)]

WebSearchToolResult(block) ==
  [ClaudeBlk("tool_result") EXCEPT
     !.tool_use_id = getWebSearchCallId(block),
     !.content = stringifyToolResult(
                   Coalesce(block.results,
                     Coalesce(block.content,
                       Coalesce(block.output, block.text))))]

\* the loop over messageItem.content
RECURSIVE mapMessageContent(_, _, _)
mapMessageContent(blocks, i, content) ==
  IF i > Len(blocks) THEN content
  ELSE LET block == blocks[i]
           mapped == mapReasoningBlockToClaude(block)
           next ==
             IF (block.type = "text" \/ block.type = "output_text")
                /\ Truthy(block.text)
             THEN Append(content,
                         [ClaudeBlk("text") EXCEPT !.text = block.text])
             ELSE IF block.type = "function_call" /\ Truthy(block.call_id)
                     /\ Truthy(block.name)
             THEN Append(content,
                         [ClaudeBlk("tool_use") EXCEPT
                            !.id = block.call_id, !.name = block.name,
                            !.input = parseToolArguments(block.arguments)])
             ELSE IF block.type = "web_search_call"
             THEN Append(content, WebSearchToolUse(block))
             ELSE IF block.type = "web_search_result"
             THEN Append(content, WebSearchToolResult(block))
             ELSE IF block.type \in
                       {"reasoning", "output_reasoning", "redacted_reasoning"}
                     /\ mapped # NoBlock
             THEN Append(content, mapped)
             ELSE content
       IN mapMessageContent(blocks, i + 1, next)

\* the loop over openai.output
RECURSIVE mapOutputItems(_, _, _)
mapOutputItems(output, i, content) ==
  IF i > Len(output) THEN content
  ELSE LET item == output[i]
           mapped == mapReasoningBlockToClaude(item)
           next ==
             IF item.type = "function_call"
             THEN Append(content,
                         [ClaudeBlk("tool_use") EXCEPT
                            !.id = item.call_id, !.name = item.name,
                            !.input = parseToolArguments(item.arguments)])
             ELSE IF item.type = "web_search_call"
             THEN Append(content, WebSearchToolUse(item))
             ELSE IF item.type = "web_search_result"
             THEN Append(content, WebSearchToolResult(item))
             ELSE IF item.type \in
                       {"reasoning", "output_reasoning", "redacted_reasoning"}
                     /\ mapped # NoBlock
             THEN Append(content, mapped)
             ELSE content
       IN mapOutputItems(output, i + 1, next)

\* mapOpenAIToClaude with the loop over openai.output before the loop over
\* the message item's content
mapOpenAIToClaude_topFirst(response, m) ==
  LET i == FindMessage(response.output)
      fromItems == mapOutputItems(response.output, 1, <<>>)
  IN [id |-> response.id, type |-> "message", role |-> "assistant",
      content |-> IF i # 0
                  THEN mapMessageContent(response.output[i].content, 1,
                                         fromItems)
                  ELSE fromItems,
      model |-> m, stop_reason |-> Null, stop_sequence |-> Null,
      usage |-> attachToolUseUsage(mapOpenAIUsageToClaude(response.usage),
                                   countWebSearchRequests(response.output))]

mapOpenAIToClaude(openai, model) ==
  LET m == FindMessage(openai.output)
      modelConfig == getDownstreamConfig(model)
      webSearchRequests == countWebSearchRequests(openai.output)
      fromMessage == IF m # 0
                     THEN mapMessageContent(openai.output[m].content, 1, <<>>)
                     ELSE <<>>
      content == mapOutputItems(openai.output, 1, fromMessage)
      reported == IF m # 0 THEN OrElse(openai.output[m].stop_reason, Null)
                  ELSE Null
      stopReason ==
        IF modelConfig # 0 /\ openai.usage.present
           /\ openai.usage.output_tokens # UndefNum
           /\ openai.usage.output_tokens # 0
           /\ openai.usage.output_tokens >= modelConfig
        THEN "max_tokens"
        ELSE mapFinishReason(reported)
  IN [id |-> openai.id, type |-> "message", role |-> "assistant",
      content |-> content, model |-> model, stop_reason |-> stopReason,
      stop_sequence |-> Null,
      usage |-> attachToolUseUsage(mapOpenAIUsageToClaude(openai.usage),
                                   webSearchRequests)]

----------------------------------------------------------------------------
(* mapClaudeToOpenAI *)

\* The strings this translator concatenates are sequences of pieces; the
\* empty string is <<>>, and no piece is made of other pieces.
Str(s) == <<s>>

\* "\n"
LF == "<LF>"

\* a content block of a request message
ReqBlk(t) ==
  [type |-> t, text |-> <<>>, id |-> Undef, name |-> Undef, input |-> JNull,
   tool_use_id |-> Undef, content |-> <<>>, thinking |-> <<>>,
   data |-> <<>>, signature |-> Undef]

\* string content, and structured content
StringContent(text) == [kind |-> "string", text |-> text, blocks |-> <<>>]
BlockContent(blocks) == [kind |-> "blocks", text |-> <<>>, blocks |-> blocks]
\* an absent system prompt
NoContent == [kind |-> "absent", text |-> <<>>, blocks |-> <<>>]

NoThinking == [present |-> FALSE, budget_tokens |-> UndefNum,
               budget |-> UndefNum]

NoOutputConfig == [present |-> FALSE, effort |-> Undef]

NoReasoning == [present |-> FALSE, effort |-> Undef]

\* parts.join(sep)
RECURSIVE Join(_, _)
Join(parts, sep) ==
  IF parts = <<>> THEN <<>>
  ELSE IF Len(parts) = 1 THEN parts[1]
  ELSE parts[1] \o sep \o Join(Tail(parts), sep)

\* parts.filter(Boolean)
RECURSIVE FilterBoolean(_)
FilterBoolean(parts) ==
  IF parts = <<>> THEN <<>>
  ELSE (IF parts[1] # <<>> THEN <<parts[1]>> ELSE <<>>)
       \o FilterBoolean(Tail(parts))

\* blocks.map(block => block.text)
RECURSIVE TextsOf(_)
TextsOf(blocks) ==
  IF blocks = <<>> THEN <<>>
  ELSE <<blocks[1].text>> \o TextsOf(Tail(blocks))

IsTextBlock(block) == block.type = "text"
IsToolResult(block) == block.type = "tool_result"

\* textFromContent with the text blocks joined by newlines
textFromContent_newline(content) ==
  IF content.kind = "string" THEN content.text
  ELSE Join(TextsOf(SelectSeq(content.blocks, IsTextBlock)), <<LF>>)

textFromContent(content) ==
  IF content.kind = "string" THEN content.text
  ELSE Join(TextsOf(SelectSeq(content.blocks, IsTextBlock)), <<>>)

extractToolResults(content) ==
  IF content.kind = "string" THEN <<>>
  ELSE SelectSeq(content.blocks, IsToolResult)

\* JSON.stringify(block.input ?? {}) on the inputs the model uses
StringifyInput(input) ==
  IF input = JNull \/ input = JObject(<<>>) THEN "{}"
  ELSE IF input = JObject(<< <<"q", "tla">> >>) THEN "{\"q\":\"tla\"}"
  ELSE "<json>"

formatToolCall(block) ==
  <<"[tool_call id=", block.id, " name=", block.name, " args=",
    StringifyInput(block.input), "]">>

RECURSIVE ResultMarkers(_)
ResultMarkers(results) ==
  IF results = <<>> THEN <<>>
  ELSE << <<"[tool_result id=", results[1].tool_use_id, "]", LF>>
          \o results[1].content >>
       \o ResultMarkers(Tail(results))

formatToolResults(results) == Join(ResultMarkers(results), <<LF>>)

Item(role, content) == [role |-> role, content |-> content]

\* lines 462-467: the system item
systemItems(system) ==
  LET systemText == IF system.kind = "blocks"
                    THEN Join(TextsOf(system.blocks), <<>>)
                    ELSE system.text
  IN IF system.kind = "absent"
        \/ (system.kind = "string" /\ system.text = <<>>)
     THEN <<>>
     ELSE IF systemText # <<>> THEN <<Item("system", systemText)>> ELSE <<>>

\* lines 471-479 without the test of combined
userItems_keepEmpty(content) ==
  LET text == textFromContent(content)
      toolResults == extractToolResults(content)
      toolText == IF Len(toolResults) > 0 THEN formatToolResults(toolResults)
                  ELSE <<>>
      combined == Join(FilterBoolean(<<text, toolText>>), <<LF>>)
  IN <<Item("user", combined)>>

\* lines 471-479: the item of a user message
userItems(content) ==
  LET text == textFromContent(content)
      toolResults == extractToolResults(content)
      toolText == IF Len(toolResults) > 0 THEN formatToolResults(toolResults)
                  ELSE <<>>
      combined == Join(FilterBoolean(<<text, toolText>>), <<LF>>)
  IN IF combined # <<>> THEN <<Item("user", combined)>> ELSE <<>>

\* lines 488-501 with the thinking blocks pushed as lines
RECURSIVE textBlocks_withThinking(_)
textBlocks_withThinking(blocks) ==
  IF blocks = <<>> THEN <<>>
  ELSE (IF blocks[1].type = "text" THEN <<blocks[1].text>>
        ELSE IF blocks[1].type = "tool_use"
        THEN <<formatToolCall(blocks[1])>>
        ELSE IF blocks[1].type = "thinking" THEN <<blocks[1].thinking>>
        ELSE <<>>)
       \o textBlocks_withThinking(Tail(blocks))

\* lines 488-501: the lines of an assistant message with structured content
RECURSIVE textBlocks(_)
textBlocks(blocks) ==
  IF blocks = <<>> THEN <<>>
  ELSE (IF blocks[1].type = "text" THEN <<blocks[1].text>>
        ELSE IF blocks[1].type = "tool_use"
        THEN <<formatToolCall(blocks[1])>>
        ELSE <<>>)
       \o textBlocks(Tail(blocks))

\* lines 480-507: the item of an assistant message
assistantItems(content) ==
  IF content.kind = "string"
  THEN (IF content.text # <<>> THEN <<Item("assistant", content.text)>>
        ELSE <<>>)
  ELSE LET assistantText == Join(textBlocks(content.blocks), <<LF>>)
       IN IF assistantText # <<>> THEN <<Item("assistant", assistantText)>>
          ELSE <<>>

\* lines 469-508: the loop over req.messages
RECURSIVE mapMessages(_, _, _)
mapMessages(msgs, i, messages) ==
  IF i > Len(msgs) THEN messages
  ELSE mapMessages(msgs, i + 1,
         messages \o (IF msgs[i].role = "user"
                      THEN userItems(msgs[i].content)
                      ELSE IF msgs[i].role = "assistant"
                      THEN assistantItems(msgs[i].content)
                      ELSE <<>>))

\* mapBudgetTokensToEffort with the thresholds excluded from their tiers
mapBudgetTokensToEffort_strict(budgetTokens) ==
  IF budgetTokens > 10000 THEN "high"
  ELSE IF budgetTokens > 5000 THEN "medium"
  ELSE "low"

mapBudgetTokensToEffort(budgetTokens) ==
  IF budgetTokens >= 10000 THEN "high"
  ELSE IF budgetTokens >= 5000 THEN "medium"
  ELSE "low"

mapClaudeToOpenAI(req, upstreamModel) ==
  LET thinkingBudget ==
        IF req.thinking.present /\ req.thinking.budget_tokens # UndefNum
        THEN req.thinking.budget_tokens
        ELSE IF req.thinking.present /\ req.thinking.budget # UndefNum
        THEN req.thinking.budget
        ELSE UndefNum
      inferredEffort ==
        IF thinkingBudget # UndefNum
        THEN mapBudgetTokensToEffort(thinkingBudget) ELSE Undef
      effort == IF req.output_config.present THEN req.output_config.effort
                ELSE Undef
      reasoning ==
        IF Truthy(effort) THEN [present |-> TRUE, effort |-> effort]
        ELSE IF Truthy(inferredEffort)
        THEN [present |-> TRUE, effort |-> inferredEffort]
        ELSE NoReasoning
  IN [model |-> upstreamModel,
      input |-> mapMessages(req.messages, 1, systemItems(req.system)),
      max_output_tokens |->
        IF req.max_tokens # UndefNum
        THEN (IF req.max_tokens > 16 THEN req.max_tokens ELSE 16)
        ELSE UndefNum,
      reasoning |-> reasoning]

----------------------------------------------------------------------------
(* handleMessages (src/index.ts) *)

\* null of a number of seconds
NoSeconds == -1

\* getModelMapping of ./config: the mapping whose downstream name is m; a
\* mapping is named by its downstream model
getModelMapping(config, m) ==
  IF m \in config.modelMappings THEN m ELSE Undef

\* lines 176-178 without the fallback to the default model's mapping
resolveMapping_noDefault(config, p) ==
  getModelMapping(config, OrElse(p.model, config.defaultDownstreamModel))

\* lines 176-178: the mapping a request is served under
resolveMapping(config, p) ==
  Coalesce(
    getModelMapping(config, OrElse(p.model, config.defaultDownstreamModel)),
    getModelMapping(config, config.defaultDownstreamModel))

\* parseRetryAfterSeconds on the header values the model uses
parseRetryAfterSeconds(value) ==
  IF ~Truthy(value) THEN NoSeconds
  ELSE IF value = "2" THEN 2
  ELSE IF value = "1.5" THEN 2
  ELSE NoSeconds

\* parseGeminiRetryDelaySeconds on the bodies the model uses
parseGeminiRetryDelaySeconds(text) ==
  IF text = "{\"error\":{\"details\":[{\"@type\":\"RetryInfo\",\"retryDelay\":\"7s\"}]}}"
  THEN 7
  ELSE NoSeconds

\* what an upstream call resolves to: a response, or the rejection of
\* fetchWithTimeout
Reply(status, retryAfter, body) ==
  [kind |-> "response", status |-> status, retry_after |-> retryAfter,
   body |-> body]

Timeout == [kind |-> "timeout", status |-> 0, retry_after |-> Null,
            body |-> ""]

\* jsonResponse(body, status, headers)
jsonResponse(error, details, allowedModels, status, retryAfter) ==
  [error |-> error, details |-> details, allowedModels |-> allowedModels,
   status |-> status, retry_after |-> retryAfter]

NoResponse == jsonResponse(Undef, Undef, {}, 0, NoSeconds)

\* the translated reply of a successful call (lines 258-272 and 318-332)
Translated == jsonResponse(Undef, "<translated>", {}, 200, NoSeconds)

TimedOut ==
  jsonResponse("Upstream request timed out", "<message>", {}, 504, NoSeconds)

Ok(r) == r.status >= 200 /\ r.status <= 299

\* the handler's position and locals after an upstream reply
After(pc, attempt, slept, response) ==
  [pc |-> pc, attempt |-> attempt, slept |-> slept, response |-> response]

\* lines 293-332: the reply of the single call of the OpenAI branch
openaiReply(r, attempt, slept) ==
  IF r.kind = "timeout" THEN {After("done", attempt, slept, TimedOut)}
  ELSE IF ~Ok(r)
  THEN {After("done", attempt, slept,
              jsonResponse("Upstream request failed", r.body, {}, r.status,
                           NoSeconds))}
  ELSE {After("done", attempt, slept, Translated)}

\* lines 215-272: the reply of one call of the retry loop of the Gemini
\* branch; reading the consumed body of a 429 response whose text is empty
\* a second time (line 252) either gives "" or throws
geminiReply(r, attempt, slept, maxRetries) ==
  LET retryAfterSeconds ==
        LET structured == parseGeminiRetryDelaySeconds(r.body)
        IN IF structured # NoSeconds THEN structured
           ELSE parseRetryAfterSeconds(r.retry_after)
      failed(text, seconds) ==
        After("done", attempt, slept,
              jsonResponse("Upstream request failed", text, {}, r.status,
                           seconds))
  IN IF r.kind = "timeout" THEN {After("done", attempt, slept, TimedOut)}
     ELSE IF r.status # 429
     THEN (IF ~Ok(r) THEN {failed(r.body, NoSeconds)}
           ELSE {After("done", attempt, slept, Translated)})
     ELSE IF retryAfterSeconds = NoSeconds \/ attempt = maxRetries
     THEN (IF r.body # "" THEN {failed(r.body, retryAfterSeconds)}
           ELSE {failed("", retryAfterSeconds),
                 After("threw", attempt, slept, NoResponse)})
     ELSE {After("sleeping", attempt, Append(slept, retryAfterSeconds),
                 NoResponse)}

----------------------------------------------------------------------------
(* createClaudeStream: events, frames and the per-frame handler *)

NoPending == -1

\* the argument of one send(event, data) call
Ev(e) ==
  [event |-> e, index |-> -1, block_type |-> Undef, delta_type |-> Undef,
   id |-> Undef, name |-> Undef, payload |-> Undef, stop_reason |-> Undef,
   usage |-> NoClaudeUsage]

NoDelta == [present |-> FALSE, thinking |-> Undef, data |-> Undef,
            signature |-> Undef]

\* the parsed payload of a data frame that is a JSON object
Json ==
  [id |-> Undef, type |-> Undef, stop_reason |-> Undef, usage |-> NoUsage,
   output |-> <<>>, delta |-> NoDelta]

\* one line of the inbound text, by what the loop makes of it:
\*   "other"  does not start with "data:"      "done"   data: [DONE]
\*   "bad"    payload JSON.parse rejects        "null"   payload null
\*   "scalar" payload is a number or a string   "object" payload is json
Line(k, j) == [kind |-> k, json |-> j]

\* JSON.stringify on the objects buildWebSearchInput assembles
JSONstringify(obj) ==
  IF obj.fields = <<>> THEN "{}"
  ELSE IF obj.fields = << <<"query", "tla">> >> THEN "{\"query\":\"tla\"}"
  ELSE IF obj.fields = << <<"q", "tla">> >> THEN "{\"q\":\"tla\"}"
  ELSE "{...}"

\* eventType.includes("reasoning") || eventType.includes("redacted")
IncludesReasoning(eventType) ==
  eventType \in {"response.reasoning.delta", "response.reasoning_text.delta",
                 "response.redacted.delta"}

send(st, ev) == [st EXCEPT !.out = Append(@, ev)]

RECURSIVE sendAll(_, _, _)
sendAll(st, evs, i) ==
  IF i > Len(evs) THEN st ELSE sendAll(send(st, evs[i]), evs, i + 1)

recordWebSearch(st, block) ==
  LET callId == getWebSearchCallId(block)
  IN IF Truthy(callId)
     THEN [st EXCEPT !.webSearchCallIds = @ \cup {callId}]
     ELSE [st EXCEPT !.webSearchFallbackCount = @ + 1]

getWebSearchRequestCount(st) ==
  IF Cardinality(st.webSearchCallIds) > 0
  THEN Cardinality(st.webSearchCallIds)
  ELSE st.webSearchFallbackCount

\* openBlock without the content_block_stop of the pending block
openBlock_noStop(st, start, deltas) ==
  LET idx == st.contentBlockIndex
      s2 == send(st, [start EXCEPT !.event = "content_block_start",
                                   !.index = idx])
      s3 == sendAll(s2, [i \in 1..Len(deltas) |->
                           [deltas[i] EXCEPT !.event = "content_block_delta",
                                             !.index = idx]], 1)
  IN [s3 EXCEPT !.pendingContentBlockStop = idx,
                !.contentBlockIndex = idx + 1]

\* the statement sequence every block-opening branch repeats: close the
\* pending block, start block contentBlockIndex, send its deltas, record it
\* as pending and advance the index
openBlock(st, start, deltas) ==
  LET idx == st.contentBlockIndex
      s1 == IF st.pendingContentBlockStop # NoPending
            THEN send(st, [Ev("content_block_stop") EXCEPT
                             !.index = st.pendingContentBlockStop])
            ELSE st
      s2 == send(s1, [start EXCEPT !.event = "content_block_start",
                                   !.index = idx])
      s3 == sendAll(s2, [i \in 1..Len(deltas) |->
                           [deltas[i] EXCEPT !.event = "content_block_delta",
                                             !.index = idx]], 1)
  IN [s3 EXCEPT !.pendingContentBlockStop = idx,
                !.contentBlockIndex = idx + 1]

Delta(t, payload) ==
  [Ev("content_block_delta") EXCEPT !.delta_type = t, !.payload = payload]

DeltaIf(cond, t, payload) == IF cond THEN <<Delta(t, payload)>> ELSE <<>>

\* sendThinkingBlock without the signature_delta
sendThinkingBlock_noSignature(st, thinkingText, signature) ==
  openBlock(st, [Ev("content_block_start") EXCEPT !.block_type = "thinking"],
            DeltaIf(Truthy(thinkingText), "thinking_delta", thinkingText))

sendThinkingBlock(st, thinkingText, signature) ==
  openBlock(st, [Ev("content_block_start") EXCEPT !.block_type = "thinking"],
            DeltaIf(Truthy(thinkingText), "thinking_delta", thinkingText)
            \o DeltaIf(Truthy(signature), "signature_delta", signature))

sendRedactedThinkingBlock(st, data, signature) ==
  openBlock(st,
            [Ev("content_block_start") EXCEPT
               !.block_type = "redacted_thinking"],
            DeltaIf(Truthy(data), "redacted_thinking_delta", data)
            \o DeltaIf(Truthy(signature), "signature_delta", signature))

\* whether handleReasoningBlock returns true
IsReasoningBlock(block) ==
  \/ block.type = "redacted_reasoning" /\ Truthy(block.data)
  \/ block.type = "reasoning" \/ block.type = "output_reasoning"

handleReasoningBlock(st, block) ==
  IF block.type = "redacted_reasoning" /\ Truthy(block.data)
  THEN sendRedactedThinkingBlock(st, block.data, block.signature)
  ELSE IF block.type = "reasoning" \/ block.type = "output_reasoning"
  THEN sendThinkingBlock(st, getReasoningText(block), block.signature)
  ELSE st

\* handleThinkingDelta when a block is pending
handleThinkingDelta(st, delta) ==
  LET deltas ==
        DeltaIf(Truthy(delta.thinking), "thinking_delta", delta.thinking)
        \o DeltaIf(Truthy(delta.data), "redacted_thinking_delta", delta.data)
        \o DeltaIf(Truthy(delta.signature), "signature_delta",
                   delta.signature)
  IN sendAll(st, [i \in 1..Len(deltas) |->
                    [deltas[i] EXCEPT !.index = st.pendingContentBlockStop]],
             1)

\* whether maybeHandleReasoningEvent returns true
maybeHandleReasoningEvent(st, json) ==
  /\ Truthy(json.type)
  /\ IncludesReasoning(json.type)
  /\ json.delta.present
  /\ st.pendingContentBlockStop # NoPending

webSearchCallBlock(st, block) ==
  LET toolInput == buildWebSearchInput(block)
      partialJson == IF Truthy(block.arguments) THEN block.arguments
                     ELSE IF Len(toolInput.fields) > 0
                     THEN JSONstringify(toolInput) ELSE ""
  IN openBlock(st,
               [Ev("content_block_start") EXCEPT
                  !.block_type = "tool_use",
                  !.id = getWebSearchCallId(block), !.name = "web_search"],
               DeltaIf(Truthy(partialJson), "input_json_delta", partialJson))

webSearchResultBlock(st, block) ==
  LET resultText == stringifyToolResult(
                      Coalesce(block.results,
                        Coalesce(block.content,
                          Coalesce(block.output, block.text))))
  IN openBlock(st,
               [Ev("content_block_start") EXCEPT
                  !.block_type = "tool_result",
                  !.id = getWebSearchCallId(block)],
               DeltaIf(Truthy(resultText), "text_delta", resultText))

\* lines 801-815: the scan of a message item's content for web searches
RECURSIVE scanBlocks(_, _, _)
scanBlocks(st, blocks, i) ==
  IF i > Len(blocks) THEN st
  ELSE scanBlocks(IF IsWebSearch(blocks[i])
                  THEN recordWebSearch(st, blocks[i]) ELSE st,
                  blocks, i + 1)

\* scanItems without the stop_reason of the output items
RECURSIVE scanItems_noStopReason(_, _, _)
scanItems_noStopReason(st, output, i) ==
  IF i > Len(output) THEN st
  ELSE LET item == output[i]
           s2 == IF IsWebSearch(item) THEN recordWebSearch(st, item) ELSE st
           s3 == IF item.type = "message"
                 THEN scanBlocks(s2, item.content, 1) ELSE s2
       IN scanItems_noStopReason(s3, output, i + 1)

\* lines 800-816: stop_reason and web searches of the output items
RECURSIVE scanItems(_, _, _)
scanItems(st, output, i) ==
  IF i > Len(output) THEN st
  ELSE LET item == output[i]
           s1 == IF item.stop_reason # Undef
                 THEN [st EXCEPT
                         !.stopReason = mapFinishReason(item.stop_reason)]
                 ELSE st
           s2 == IF IsWebSearch(item) THEN recordWebSearch(s1, item) ELSE s1
           s3 == IF item.type = "message"
                 THEN scanBlocks(s2, item.content, 1) ELSE s2
       IN scanItems(s3, output, i + 1)

\* lines 850-915: the blocks nested in a message item
RECURSIVE renderBlocks(_, _, _)
renderBlocks(st, blocks, i) ==
  IF i > Len(blocks) THEN st
  ELSE LET contentBlock == blocks[i]
           next ==
             IF (contentBlock.type = "text"
                 \/ contentBlock.type = "output_text")
                /\ Truthy(contentBlock.text)
             THEN openBlock(st,
                            [Ev("content_block_start") EXCEPT
                               !.block_type = "text"],
                            <<Delta("text_delta", contentBlock.text)>>)
             ELSE IF IsReasoningBlock(contentBlock)
             THEN handleReasoningBlock(st, contentBlock)
             ELSE IF contentBlock.type = "web_search_call"
             THEN webSearchCallBlock(recordWebSearch(st, contentBlock),
                                     contentBlock)
             ELSE IF contentBlock.type = "web_search_result"
             THEN webSearchResultBlock(recordWebSearch(st, contentBlock),
                                       contentBlock)
             ELSE st
       IN renderBlocks(next, blocks, i + 1)

\* lines 847-982: the output items of a frame
RECURSIVE renderItems(_, _, _)
renderItems(st, output, i) ==
  IF i > Len(output) THEN st
  ELSE LET item == output[i]
           next ==
             IF item.type = "message"
             THEN renderBlocks(st, item.content, 1)
             ELSE IF item.type = "function_call" /\ Truthy(item.call_id)
                     /\ Truthy(item.name)
             THEN openBlock(st,
                            [Ev("content_block_start") EXCEPT
                               !.block_type = "tool_use",
                               !.id = item.call_id, !.name = item.name],
                            DeltaIf(Truthy(item.arguments),
                                    "input_json_delta", item.arguments))
             ELSE IF IsReasoningBlock(item)
             THEN handleReasoningBlock(st, item)
             ELSE IF item.type = "web_search_call"
             THEN webSearchCallBlock(recordWebSearch(st, item), item)
             ELSE IF item.type = "web_search_result"
             THEN webSearchResultBlock(st, item)
             ELSE st
       IN renderItems(next, output, i + 1)

\* lines 827-845
sendMessageStart(st, json) ==
  IF ~st.sentMessageStart /\ Truthy(json.id)
  THEN [send(st, [Ev("message_start") EXCEPT
                    !.id = json.id,
                    !.usage = attachToolUseUsage(
                                mapOpenAIUsageToClaude(st.usage),
                                getWebSearchRequestCount(st))])
          EXCEPT !.messageId = json.id, !.sentMessageStart = TRUE]
  ELSE st

\* handleFrame without the continue of line 789
handleFrame_noContinue(st, json) ==
  LET s0 == IF maybeHandleReasoningEvent(st, json)
            THEN handleThinkingDelta(st, json.delta) ELSE st
      s1 == IF json.stop_reason # Undef
            THEN [s0 EXCEPT !.stopReason = mapFinishReason(json.stop_reason)]
            ELSE s0
      s2 == IF json.usage.present THEN [s1 EXCEPT !.usage = json.usage]
            ELSE s1
      s3 == scanItems(s2, json.output, 1)
  IN IF json.type = "response.output_text.done"
     THEN IF s3.pendingContentBlockStop # NoPending
          THEN [send(s3, [Ev("content_block_stop") EXCEPT
                            !.index = s3.pendingContentBlockStop])
                  EXCEPT !.pendingContentBlockStop = NoPending]
          ELSE s3
     ELSE renderItems(sendMessageStart(s3, json), json.output, 1)

\* lines 788-982: the body of the loop for a payload that parsed to json
handleFrame(st, json) ==
  IF maybeHandleReasoningEvent(st, json)
  THEN handleThinkingDelta(st, json.delta)
  ELSE LET s1 == IF json.stop_reason # Undef
                 THEN [st EXCEPT
                         !.stopReason = mapFinishReason(json.stop_reason)]
                 ELSE st
           s2 == IF json.usage.present THEN [s1 EXCEPT !.usage = json.usage]
                 ELSE s1
           s3 == scanItems(s2, json.output, 1)
       IN IF json.type = "response.output_text.done"
          THEN IF s3.pendingContentBlockStop # NoPending
               THEN [send(s3, [Ev("content_block_stop") EXCEPT
                                 !.index = s3.pendingContentBlockStop])
                       EXCEPT !.pendingContentBlockStop = NoPending]
               ELSE s3
          ELSE renderItems(sendMessageStart(s3, json), json.output, 1)

\* the closing events: content_block_stop of the pending block,
\* message_delta, message_stop and controller.close()
finish(st, deltaUsage, clearPending) ==
  LET s1 == IF st.pendingContentBlockStop # NoPending
            THEN [send(st, [Ev("content_block_stop") EXCEPT
                              !.index = st.pendingContentBlockStop])
                    EXCEPT !.pendingContentBlockStop =
                             IF clearPending THEN NoPending ELSE @]
            ELSE st
      s2 == send(s1, [Ev("message_delta") EXCEPT
                        !.stop_reason = st.stopReason, !.usage = deltaUsage])
      s3 == send(s2, Ev("message_stop"))
  IN [s3 EXCEPT !.status = "closed"]

\* lines 716-738: [DONE] in a complete line
finishDone(st) ==
  finish(st, attachToolUseUsage(mapOpenAIUsageToClaude(st.usage),
                                getWebSearchRequestCount(st)), TRUE)

\* lines 986-1009: [DONE] as the trailing line of the buffer
finishTrailingDone(st) ==
  finish(st, attachToolUseUsage(mapOpenAIUsageToClaude(st.usage),
                                getWebSearchRequestCount(st)), FALSE)

\* lines 1011-1025: the inbound stream ended without [DONE]
finishEnd(st) == finish(st, mapOpenAIUsageToClaude(st.usage), FALSE)

\* the first (n = 1) or the second (n = 2) part of the text of a line that a
\* chunk boundary cuts in two
Part(line, n) == [kind |-> "part", n |-> n, line |-> line]

\* the pieces of a line with the two parts of a cut line put together
RECURSIVE Merge(_)
Merge(syms) ==
  IF Len(syms) >= 2 /\ syms[1].kind = "part" /\ syms[2].kind = "part"
     /\ syms[1] = Part(syms[2].line, 1) /\ syms[2] = Part(syms[2].line, 2)
  THEN <<syms[1].line>> \o Merge(Tail(Tail(syms)))
  ELSE IF syms = <<>> THEN <<>>
  ELSE <<syms[1]>> \o Merge(Tail(syms))

\* whether the text of a piece starts with "data:"
StartsWithData(piece) ==
  IF piece.kind = "part" THEN piece.n = 1 /\ piece.line.kind # "other"
  ELSE piece.kind # "other"

\* the text of a line made of the pieces syms (the inbound text between two
\* newlines): one piece is that line; several pieces run together, or a part
\* of a line without its other part, start with "data:" exactly if the
\* first one does, and then neither equal [DONE] nor parse as JSON
LineOf(syms) ==
  LET pieces == Merge(syms)
  IN IF Len(pieces) = 0 THEN Line("other", Json)
     ELSE IF Len(pieces) = 1 /\ pieces[1].kind # "part" THEN pieces[1]
     ELSE IF StartsWithData(pieces[1]) THEN Line("bad", Json)
     ELSE Line("other", Json)

\* processLine with the error of JSON.parse thrown out of start()
processLine_throwOnBad(st, line) ==
  IF line.kind = "other" THEN st
  ELSE IF line.kind = "done" THEN finishDone(st)
  ELSE IF line.kind = "bad" THEN [st EXCEPT !.status = "errored"]
  ELSE IF line.kind = "null" THEN [st EXCEPT !.status = "errored"]
  ELSE IF line.kind = "scalar" THEN handleFrame(st, Json)
  ELSE handleFrame(st, line.json)

\* lines 713-982: one iteration of the loop over lines. Reading a property of
\* the payload null throws a TypeError out of start(), which errors the
\* output stream
processLine(st, line) ==
  IF line.kind = "other" THEN st
  ELSE IF line.kind = "done" THEN finishDone(st)
  ELSE IF line.kind = "bad" THEN st
  ELSE IF line.kind = "null" THEN [st EXCEPT !.status = "errored"]
  ELSE IF line.kind = "scalar" THEN handleFrame(st, Json)
  ELSE handleFrame(st, line.json)

\* processLines without the return after [DONE]
RECURSIVE processLines_noReturn(_, _, _)
processLines_noReturn(st, lines, i) ==
  IF i > Len(lines) \/ st.status = "errored" THEN st
  ELSE processLines_noReturn(processLine(st, lines[i]), lines, i + 1)

\* the for loop over lines; return and throw leave it
RECURSIVE processLines(_, _, _)
processLines(st, lines, i) ==
  IF i > Len(lines) \/ st.status # "reading" THEN st
  ELSE processLines(processLine(st, lines[i]), lines, i + 1)

----------------------------------------------------------------------------
(* The inbound text: pieces of lines and newlines *)

NL == Line("NL", Json)

\* buffer.split("\n"): acc = [lines, cur], cur the pieces after the last
\* newline (what lines.pop() leaves in buffer)
RECURSIVE splitLines(_, _, _)
splitLines(text, i, acc) ==
  IF i > Len(text) THEN acc
  ELSE IF text[i] = NL
  THEN splitLines(text, i + 1,
                  [lines |-> Append(acc.lines, LineOf(acc.cur)),
                   cur |-> <<>>])
  ELSE splitLines(text, i + 1, [acc EXCEPT !.cur = Append(@, text[i])])

----------------------------------------------------------------------------
(* The frames and chunks the model draws its inputs from *)

TextBlock(t) == [Blk("output_text") EXCEPT !.text = t]

FunctionCall(callId, name) ==
  [Blk("function_call") EXCEPT !.id = "fc_1", !.call_id = callId,
                               !.name = name, !.arguments = "{\"q\":\"tla\"}"]

WebSearchCall(callId) ==
  [Blk("web_search_call") EXCEPT !.call_id = callId, !.query = "tla"]

WebSearchResult(callId, results) ==
  [Blk("web_search_result") EXCEPT !.call_id = callId, !.results = results]

Reasoning(text, signature) ==
  [Blk("reasoning") EXCEPT !.text = text, !.signature = signature]

Redacted(data) == [Blk("redacted_reasoning") EXCEPT !.data = data]

\* a function-call whose arguments hold an empty string field
ReadCall ==
  [Blk("function_call") EXCEPT
     !.call_id = "call_read", !.name = "Read",
     !.arguments = "{\"filePath\":\"/tmp/file.txt\",\"pages\":\"\"}"]

\* a reasoning block with each of its three text fields
ReasoningOf(t, text, reasoning, summary, signature) ==
  [Blk(t) EXCEPT !.text = text, !.reasoning = reasoning,
                 !.summary = summary, !.signature = signature]

UsageOut(n) == [NoUsage EXCEPT !.present = TRUE, !.input_tokens = 5,
                               !.output_tokens = n]

UsageCompletion(n) == [NoUsage EXCEPT !.present = TRUE, !.prompt_tokens = 5,
                                      !.completion_tokens = n]

Usage57 == [NoUsage EXCEPT !.present = TRUE, !.input_tokens = 5,
                           !.output_tokens = 7]

Frame(id, output) == Line("object", [Json EXCEPT !.id = id, !.output = output])

Frames ==
  { Frame("resp_1", <<>>),
    Frame(Undef, <<Msg(<<TextBlock("hi")>>, Undef)>>),
    Frame("resp_1", <<Msg(<<TextBlock("a"), FunctionCall("call_1", "f")>>,
                          "tool_calls")>>),
    Frame("resp_2", <<FunctionCall("call_2", "g")>>),
    Frame("resp_1", <<FunctionCall("call_3", Undef),
                      FunctionCall(Undef, "f")>>),
    Frame("resp_1", <<WebSearchCall(Undef), WebSearchResult("ws_1", "found")>>),
    Frame(Undef, <<Msg(<<WebSearchCall("ws_1"),
                         WebSearchResult(Undef, Undef)>>, Undef)>>),
    Frame("resp_1", <<Reasoning("trace", "sig_1"), Redacted("REDACTED")>>),
    Frame(Undef, <<Msg(<<Reasoning(Undef, Undef), Redacted("REDACTED")>>,
                       Undef)>>),
    Frame("resp_1", <<[FunctionCall("call_4", "h") EXCEPT
                         !.arguments = Undef]>>),
    Line("object", [Json EXCEPT !.type = "response.output_text.done"]),
    Line("object", [Json EXCEPT !.type = "response.completed",
                                !.stop_reason = "stop", !.usage = Usage57]),
    Line("object", [Json EXCEPT
                      !.type = "response.reasoning.delta",
                      !.stop_reason = "length", !.usage = Usage57,
                      !.delta = [NoDelta EXCEPT !.present = TRUE,
                                                !.thinking = "more"]]),
    Line("object", [Json EXCEPT
                      !.id = "resp_1", !.type = "response.redacted.delta",
                      !.stop_reason = "stop", !.usage = Usage57,
                      !.output = <<WebSearchCall("ws_2"),
                                   Msg(<<TextBlock("late")>>, "length")>>,
                      !.delta = [NoDelta EXCEPT !.present = TRUE,
                                                !.data = "MORE",
                                                !.signature = "sig_3"]]) }

\* besides the frames: data: [DONE], an unparsable payload, the payload null
\* and a payload that is a JSON number
Lines ==
  Frames \cup {Line("done", Json), Line("bad", Json), Line("null", Json),
               Line("scalar", Json)}

\* the number of line pieces in a text
RECURSIVE Pieces(_)
Pieces(text) ==
  IF text = <<>> THEN 0
  ELSE (IF text[1] = NL THEN 0 ELSE 1) + Pieces(Tail(text))

----------------------------------------------------------------------------
(* State *)

VARIABLES
  \* createClaudeStream: the locals of start()
  sentMessageStart, messageId, contentBlockIndex, usage, stopReason,
  pendingContentBlockStop, webSearchCallIds, webSearchFallbackCount, buffer,
  \* the events sent to the controller, and the state of the output stream:
  \* "reading", "closed" (controller.close()) or "errored" (start() threw)
  out, status,
  \* history: the complete lines read so far, whether reader.read() has
  \* rejected, the inbound text read so far and whether a chunk has ended
  \* inside a line of it
  delivered, readFailed, inbound, cut,
  \* mapOpenAIToClaude: its arguments and its result
  openai, model, claude, mapped,
  \* mapFinishReason: the reasons handed to it and its results
  reasons, finished,
  \* mapClaudeToOpenAI: its arguments and its result
  req, upstreamModel, openaiReq, reqMapped,
  \* handleMessages: the configuration, the request, the handler's position
  \* ("idle", "awaiting" the upstream call, "sleeping" before a retry, "done"
  \* or "threw"), its locals, the upstream replies so far, the delays slept
  \* and the response to the client
  CONFIG, payload, pc, attempt, mapping, replies, slept, response,
  \* two createClaudeStream instances: the locals, buffer and lines of each,
  \* and the order in which the instances have run
  conns, schedule

streamVars ==
  <<sentMessageStart, messageId, contentBlockIndex, usage, stopReason,
    pendingContentBlockStop, webSearchCallIds, webSearchFallbackCount,
    buffer, out, status, delivered, readFailed, inbound, cut>>

mapVars == <<openai, model, claude, mapped>>

finishVars == <<reasons, finished>>

reqVars == <<req, upstreamModel, openaiReq, reqMapped>>

httpVars ==
  <<CONFIG, payload, pc, attempt, mapping, replies, slept, response>>

pairVars == <<conns, schedule>>

vars == <<streamVars, mapVars, finishVars, reqVars, httpVars, pairVars>>

\* the locals of start() as one record, and back
Engine ==
  [sentMessageStart |-> sentMessageStart, messageId |-> messageId,
   contentBlockIndex |-> contentBlockIndex, usage |-> usage,
   stopReason |-> stopReason,
   pendingContentBlockStop |-> pendingContentBlockStop,
   webSearchCallIds |-> webSearchCallIds,
   webSearchFallbackCount |-> webSearchFallbackCount,
   out |-> out, status |-> status]

SetEngine(st) ==
  /\ sentMessageStart' = st.sentMessageStart
  /\ messageId' = st.messageId
  /\ contentBlockIndex' = st.contentBlockIndex
  /\ usage' = st.usage
  /\ stopReason' = st.stopReason
  /\ pendingContentBlockStop' = st.pendingContentBlockStop
  /\ webSearchCallIds' = st.webSearchCallIds
  /\ webSearchFallbackCount' = st.webSearchFallbackCount
  /\ out' = st.out
  /\ status' = st.status

\* lines 577-584: the locals of a start() that has not read yet
NewEngine ==
  [sentMessageStart |-> FALSE, messageId |-> "", contentBlockIndex |-> 0,
   usage |-> NoUsage, stopReason |-> Null,
   pendingContentBlockStop |-> NoPending, webSearchCallIds |-> {},
   webSearchFallbackCount |-> 0, out |-> <<>>, status |-> "reading"]

\* one instance: its locals, its buffer, the lines it has read and whether
\* its inbound stream has ended
NewConn ==
  [engine |-> NewEngine, buffer |-> <<>>, delivered |-> <<>>,
   ended |-> FALSE]

Instances == {1, 2}

\* lines 707-984 for one instance: one reader.read() that delivers chunk
connRead(conn, chunk) ==
  LET sp == splitLines(conn.buffer \o chunk, 1,
                       [lines |-> <<>>, cur |-> <<>>])
  IN [engine |-> processLines(conn.engine, sp.lines, 1),
      buffer |-> sp.cur,
      delivered |-> conn.delivered \o sp.lines,
      ended |-> conn.ended]

\* lines 708 and 986-1025 for one instance: reader.read() reports done
connEnd(conn) ==
  [conn EXCEPT
     !.engine = IF LineOf(conn.buffer).kind = "done"
                THEN finishTrailingDone(conn.engine)
                ELSE finishEnd(conn.engine),
     !.ended = TRUE]

\* instance c reads chunk, with the set of web-search call ids kept in one
\* place for all instances
stepConn_sharedIds(cs, c, chunk) ==
  LET next == connRead(cs[c], chunk)
  IN [k \in DOMAIN cs |->
        IF k = c THEN next
        ELSE [cs[k] EXCEPT !.engine.webSearchCallIds =
                              next.engine.webSearchCallIds]]

\* instance c reads chunk: the locals of start() belong to the instance
stepConn(cs, c, chunk) == [cs EXCEPT ![c] = connRead(cs[c], chunk)]

EmptyResponse == [id |-> "resp_1", output |-> <<>>, usage |-> NoUsage]

NoResult == mapOpenAIToClaude(EmptyResponse, "gpt-5.2-codex")

StreamInit ==
  /\ sentMessageStart = FALSE
  /\ messageId = ""
  /\ contentBlockIndex = 0
  /\ usage = NoUsage
  /\ stopReason = Null
  /\ pendingContentBlockStop = NoPending
  /\ webSearchCallIds = {}
  /\ webSearchFallbackCount = 0
  /\ buffer = <<>>
  /\ out = <<>>
  /\ status = "reading"
  /\ delivered = <<>>
  /\ readFailed = FALSE
  /\ inbound = <<>>
  /\ cut = FALSE

MapIdle ==
  /\ openai = EmptyResponse
  /\ model = "gpt-5.2-codex"
  /\ claude = NoResult
  /\ mapped = FALSE

FinishIdle ==
  /\ reasons = <<>>
  /\ finished = <<>>

EmptyRequest ==
  [system |-> NoContent, messages |-> <<>>, max_tokens |-> UndefNum,
   thinking |-> NoThinking, output_config |-> NoOutputConfig]

NoRequest == mapClaudeToOpenAI(EmptyRequest, "gpt-5.2-codex")

ReqIdle ==
  /\ req = EmptyRequest
  /\ upstreamModel = "gpt-5.2-codex"
  /\ openaiReq = NoRequest
  /\ reqMapped = FALSE

DefaultConfig ==
  [provider |-> "openai", modelMappings |-> {"gpt-5.2-codex"},
   defaultDownstreamModel |-> "gpt-5.2-codex", apiKey |-> TRUE,
   maxRetries |-> 1]

NoPayload == [model |-> Undef, hasImage |-> FALSE]

HttpIdle ==
  /\ CONFIG = DefaultConfig
  /\ payload = NoPayload
  /\ pc = "idle"
  /\ attempt = 0
  /\ mapping = Undef
  /\ replies = <<>>
  /\ slept = <<>>
  /\ response = NoResponse

----------------------------------------------------------------------------
(* createClaudeStream: the read loop *)

PairIdle ==
  /\ conns = [c \in Instances |-> NewConn]
  /\ schedule = <<>>

Init ==
  StreamInit /\ MapIdle /\ FinishIdle /\ ReqIdle /\ HttpIdle /\ PairIdle

\* the line pieces the bound MaxLines still allows the stream to deliver
Room == MaxLines - Len(delivered) - Pieces(buffer)

\* whether the text read so far ends inside a line that a chunk boundary cuts
CutOpen ==
  /\ buffer # <<>>
  /\ buffer[Len(buffer)].kind = "part"
  /\ buffer[Len(buffer)].n = 1

\* what one reader.read() may deliver: after the first part of a line, its
\* second part with or without the newline; after a line without newline,
\* the newline; else a newline, a line with or without its newline, the
\* first part of a line, or two lines with their newlines
Chunks ==
  IF CutOpen
  THEN LET rest == Part(buffer[Len(buffer)].line, 2)
       IN {<<rest>>, <<rest, NL>>}
  ELSE IF buffer # <<>> THEN {<<NL>>}
  ELSE (IF Room >= 1
        THEN {<<NL>>} \cup {<<l>> : l \in Lines}
             \cup {<<l, NL>> : l \in Lines}
             \cup {<<Part(l, 1)>> : l \in Lines}
        ELSE {})
       \cup (IF Room >= 2
             THEN {<<l[1], NL, l[2], NL>> : l \in Lines \X Lines} ELSE {})

\* ReadChunk with the lines split from the chunk alone, without the text
\* the earlier chunks left in buffer
ReadChunk_chunkAlone ==
  /\ status = "reading"
  /\ \E chunk \in Chunks :
       LET sp == splitLines(Merge(chunk), 1, [lines |-> <<>>, cur |-> <<>>])
       IN /\ SetEngine(processLines(Engine, sp.lines, 1))
          /\ buffer' = sp.cur
          /\ delivered' = delivered \o sp.lines
          /\ inbound' = Merge(inbound \o chunk)
          /\ cut' = (cut \/ CutOpen)
  /\ UNCHANGED <<readFailed, mapVars, finishVars, reqVars, httpVars, pairVars>>

\* lines 707-984: one reader.read() that delivers chunk, and the loop over
\* the complete lines it makes
ReadChunk ==
  /\ status = "reading"
  /\ \E chunk \in Chunks :
       LET sp == splitLines(Merge(buffer \o chunk), 1,
                            [lines |-> <<>>, cur |-> <<>>])
       IN /\ SetEngine(processLines(Engine, sp.lines, 1))
          /\ buffer' = sp.cur
          /\ delivered' = delivered \o sp.lines
          /\ inbound' = Merge(inbound \o chunk)
          /\ cut' = (cut \/ CutOpen)
  /\ UNCHANGED <<readFailed, mapVars, finishVars, reqVars, httpVars, pairVars>>

\* lines 708 and 986-1025: reader.read() reports done
EndOfStream ==
  /\ status = "reading"
  /\ LET finalLine == LineOf(buffer)
     IN SetEngine(IF finalLine.kind = "done"
                  THEN finishTrailingDone(Engine)
                  ELSE finishEnd(Engine))
  /\ UNCHANGED <<buffer, delivered, readFailed, inbound, cut, mapVars,
                 finishVars, reqVars, httpVars, pairVars>>

\* line 707: reader.read() rejects; nothing in start() catches the error, so
\* start() rejects and the output stream is errored
ReadError ==
  /\ status = "reading"
  /\ status' = "errored"
  /\ readFailed' = TRUE
  /\ UNCHANGED <<sentMessageStart, messageId, contentBlockIndex, usage,
                 stopReason, pendingContentBlockStop, webSearchCallIds,
                 webSearchFallbackCount, buffer, out, delivered, inbound,
                 cut>>
  /\ UNCHANGED <<mapVars, finishVars, reqVars, httpVars, pairVars>>

Next == ReadChunk \/ EndOfStream \/ ReadError

Spec == Init /\ [][Next]_vars

----------------------------------------------------------------------------
(* mapOpenAIToClaude applied to bounded responses *)

NestedBlocks ==
  { TextBlock("hi"), FunctionCall("call_1", "f"), Reasoning("trace", Undef) }

TopItems ==
  { FunctionCall("call_2", "g"), FunctionCall(Undef, "g"),
    WebSearchCall(Undef), WebSearchResult("ws_1", "found") }

SeqsUpTo(S, n) == UNION {[1..k -> S] : k \in 0..n}

MessageItems(n) == {Msg(c, "stop") : c \in SeqsUpTo(NestedBlocks, n)}

InsertAt(seq, k, e) == SubSeq(seq, 1, k) \o <<e>> \o SubSeq(seq, k + 1, Len(seq))

\* the output of a response of up to n items: standalone items around at
\* most one message item
Outputs(n) ==
  SeqsUpTo(TopItems, n)
  \cup UNION { {InsertAt(t, k, m) : k \in 0..Len(t),
                                    m \in MessageItems(MaxContent)} :
               t \in SeqsUpTo(TopItems, n - 1) }

Responses(n) ==
  {[id |-> "resp_1", output |-> o, usage |-> u] :
     o \in Outputs(n), u \in {Usage57}}

\* blocks with the optional fields in their less common shapes
EdgeBlocks ==
  { ReadCall, TextBlock(""), FunctionCall("call_1", Undef),
    WebSearchCall(Undef), WebSearchCall("ws_1"),
    Reasoning("top trace", "sig_1"), Redacted("REDACTED"),
    ReasoningOf("reasoning", "", "r", Undef, Undef),
    ReasoningOf("reasoning", Undef, "r", "s", "sig_1"),
    ReasoningOf("output_reasoning", Undef, Undef, "s", ""),
    ReasoningOf("output_reasoning", Undef, Undef, Undef, Undef),
    [Redacted("REDACTED") EXCEPT !.signature = "sig_2"],
    Redacted(""), Redacted(Undef) }

EdgeOutputs ==
  {<<>>}
  \cup {<<Msg(<<b>>, s)>> : b \in EdgeBlocks, s \in {Undef, "stop", "length"}}
  \cup {<<b>> : b \in EdgeBlocks}

\* usage reports around the output limits of the model table
LimitUsages ==
  { NoUsage, Usage57, UsageOut(0), UsageOut(127999), UsageOut(128000),
    UsageOut(272000), UsageCompletion(7), UsageCompletion(128000),
    [UsageOut(7) EXCEPT !.completion_tokens = 128000] }

EdgeResponses ==
  {[id |-> "resp_1", output |-> o, usage |-> u] :
     o \in EdgeOutputs, u \in LimitUsages}

\* downstream model names: two that contain a key of the table, one that
\* contains none
Models == {"gpt-5.2-codex", "gpt-5-pro", "gpt-4o"}

MapInit ==
  /\ StreamInit /\ FinishIdle /\ ReqIdle /\ HttpIdle /\ PairIdle
  /\ \/ openai \in Responses(MaxItems) /\ model = "gpt-5.2-codex"
     \/ openai \in EdgeResponses /\ model \in Models
  /\ claude = NoResult
  /\ mapped = FALSE

\* one call of mapOpenAIToClaude(openai, model)
MapResponse ==
  /\ ~mapped
  /\ claude' = mapOpenAIToClaude(openai, model)
  /\ mapped' = TRUE
  /\ UNCHANGED <<openai, model, streamVars, finishVars, reqVars, httpVars,
                 pairVars>>

MapNext == MapResponse

SpecMap == MapInit /\ [][MapNext]_vars

----------------------------------------------------------------------------
(* mapFinishReason applied to bounded reasons *)

FinishReasons ==
  {Null, "", "stop", "length", "tool_calls", "custom_reason", "end_turn",
   "content_filter"}

FinishInit ==
  /\ StreamInit /\ MapIdle /\ ReqIdle /\ HttpIdle /\ PairIdle
  /\ reasons \in SeqsUpTo(FinishReasons, MaxReasons)
  /\ finished = <<>>

\* one call of mapFinishReason, on the next of the reasons
MapReason ==
  /\ Len(finished) < Len(reasons)
  /\ finished' = Append(finished, mapFinishReason(reasons[Len(finished) + 1]))
  /\ UNCHANGED <<reasons, streamVars, mapVars, reqVars, httpVars, pairVars>>

FinishNext == MapReason

SpecFinish == FinishInit /\ [][FinishNext]_vars

----------------------------------------------------------------------------
(* mapClaudeToOpenAI applied to bounded requests *)

\* number of messages of a request
MaxMessages == 2

TextOf(t) == [ReqBlk("text") EXCEPT !.text = t]

ToolUse(id, name, input) ==
  [ReqBlk("tool_use") EXCEPT !.id = id, !.name = name, !.input = input]

ToolResult(id, content) ==
  [ReqBlk("tool_result") EXCEPT !.tool_use_id = id, !.content = content]

Thinking(t) == [ReqBlk("thinking") EXCEPT !.thinking = t]

RedactedThinking(data, signature) ==
  [ReqBlk("redacted_thinking") EXCEPT !.data = data, !.signature = signature]

Message(role, content) == [role |-> role, content |-> content]

UserContents ==
  { StringContent(Str("Hello")), StringContent(<<>>), BlockContent(<<>>),
    BlockContent(<<TextOf(<<>>)>>),
    BlockContent(<<TextOf(Str("a")), TextOf(Str("b"))>>),
    BlockContent(<<ToolResult("toolu_1", Str("ok"))>>),
    BlockContent(<<ToolResult("toolu_1", <<>>)>>),
    BlockContent(<<TextOf(Str("a")), ToolResult("toolu_1", Str("ok")),
                   ToolResult("toolu_2", Str("no"))>>) }

AssistantContents ==
  { StringContent(Str("Hi")), StringContent(<<>>), BlockContent(<<>>),
    BlockContent(<<TextOf(Str("answer")), Thinking(Str("trace")),
                   RedactedThinking(Str("REDACTED"), "sig_2")>>),
    BlockContent(<<Thinking(Str("trace"))>>),
    BlockContent(<<RedactedThinking(Str("REDACTED"), Undef),
                   TextOf(<<>>)>>),
    BlockContent(<<TextOf(<<>>), TextOf(<<>>)>>),
    BlockContent(<<ToolUse("toolu_1", "f", JObject(<< <<"q", "tla">> >>))>>),
    BlockContent(<<Thinking(Str("trace")), TextOf(Str("a")),
                   ToolUse("toolu_2", "g", JNull)>>) }

Messages ==
  {Message("user", c) : c \in UserContents}
  \cup {Message("assistant", c) : c \in AssistantContents}

Systems ==
  { NoContent, StringContent(<<>>), StringContent(Str("sys")),
    BlockContent(<<>>), BlockContent(<<TextOf(<<>>), TextOf(<<>>)>>),
    BlockContent(<<TextOf(Str("be")), TextOf(Str("brief"))>>) }

\* thinking directives: without a budget, with budget_tokens, with budget
Thinkings ==
  {NoThinking, [NoThinking EXCEPT !.present = TRUE]}
  \cup {[NoThinking EXCEPT !.present = TRUE, !.budget_tokens = b] :
          b \in {0, 4999, 5000, 9999, 10000, 20000}}
  \cup {[NoThinking EXCEPT !.present = TRUE, !.budget = b] :
          b \in {4999, 5000, 10000}}
  \cup {[present |-> TRUE, budget_tokens |-> 0, budget |-> 10000]}

OutputConfigs ==
  {NoOutputConfig}
  \cup {[present |-> TRUE, effort |-> e] : e \in {Undef, "", "low", "xhigh"}}

Requests(n) ==
  {[EmptyRequest EXCEPT !.system = s, !.messages = m, !.max_tokens = 10] :
     s \in Systems, m \in SeqsUpTo(Messages, n)}
  \cup {[EmptyRequest EXCEPT
           !.messages = <<Message("user", StringContent(Str("Hello")))>>,
           !.max_tokens = t, !.thinking = th, !.output_config = oc] :
          t \in {UndefNum, 1024}, th \in Thinkings, oc \in OutputConfigs}

ReqInit ==
  /\ StreamInit /\ MapIdle /\ FinishIdle /\ HttpIdle /\ PairIdle
  /\ req \in Requests(MaxMessages)
  /\ upstreamModel = "gpt-5.2-codex"
  /\ openaiReq = NoRequest
  /\ reqMapped = FALSE

\* one call of mapClaudeToOpenAI(req, upstreamModel)
MapRequest ==
  /\ ~reqMapped
  /\ openaiReq' = mapClaudeToOpenAI(req, upstreamModel)
  /\ reqMapped' = TRUE
  /\ UNCHANGED <<req, upstreamModel, streamVars, mapVars, finishVars,
                 httpVars, pairVars>>

ReqNext == MapRequest

SpecReq == ReqInit /\ [][ReqNext]_vars

----------------------------------------------------------------------------
(* A text-only message through mapClaudeToOpenAI, and a response that      *)
(* carries the same text through mapOpenAIToClaude                          *)

\* number of text blocks of the message
MaxTexts == 2

\* the JavaScript string a sequence of pieces stands for
RECURSIVE StringOf(_)
StringOf(t) == IF t = <<>> THEN "" ELSE t[1] \o StringOf(Tail(t))

TripTexts == {<<>>, Str("a"), Str("b"), <<"c", LF, "d">>}

TripContents ==
  {StringContent(t) : t \in TripTexts}
  \cup {BlockContent([i \in 1..Len(s) |-> TextOf(s[i])]) :
          s \in SeqsUpTo(TripTexts, MaxTexts)}

\* the texts a text-only message is made of
TextsOfMessage(msg) ==
  IF msg.content.kind = "string" THEN <<msg.content.text>>
  ELSE TextsOf(msg.content.blocks)

\* the response of the same shape as msg: one message item with one
\* output_text block for each text of msg
SameShaped(msg) ==
  LET texts == TextsOfMessage(msg)
  IN [id |-> "resp_1",
      output |-> <<Msg([i \in 1..Len(texts) |->
                          TextBlock(StringOf(texts[i]))], "stop")>>,
      usage |-> Usage57]

TripInit ==
  /\ StreamInit /\ MapIdle /\ FinishIdle /\ HttpIdle /\ PairIdle
  /\ req \in {[EmptyRequest EXCEPT !.messages = <<Message(r, c)>>] :
                r \in {"user", "assistant"}, c \in TripContents}
  /\ upstreamModel = "gpt-5.2-codex"
  /\ openaiReq = NoRequest
  /\ reqMapped = FALSE

\* one call of mapOpenAIToClaude on the response of the same shape as the
\* message of the translated request
MapBack ==
  /\ reqMapped /\ ~mapped
  /\ openai' = SameShaped(req.messages[1])
  /\ claude' = mapOpenAIToClaude(openai', model)
  /\ mapped' = TRUE
  /\ UNCHANGED <<model, streamVars, finishVars, reqVars, httpVars, pairVars>>

TripNext == MapRequest \/ MapBack

SpecTrip == TripInit /\ [][TripNext]_vars

----------------------------------------------------------------------------
(* handleMessages on bounded configurations, requests and upstream replies *)

\* the largest GEMINI_MAX_RETRIES of a configuration
MaxRetries == 1

Configs ==
  {[provider |-> p, modelMappings |-> ms, defaultDownstreamModel |-> d,
    apiKey |-> k, maxRetries |-> n] :
     p \in {"openai", "gemini"},
     ms \in {{}, {"gpt-5.2-codex"}, {"gpt-5.2-codex", "gpt-5-mini"}},
     d \in {"gpt-5.2-codex", "gpt-5-mini"},
     k \in BOOLEAN, n \in 0..MaxRetries}

Payloads ==
  {[model |-> m, hasImage |-> i] :
     m \in {Undef, "gpt-5.2-codex", "claude-haiku"}, i \in BOOLEAN}

RetryInfoBody ==
  "{\"error\":{\"details\":[{\"@type\":\"RetryInfo\",\"retryDelay\":\"7s\"}]}}"

Replies ==
  {Timeout, Reply(200, Null, "ok"), Reply(500, Null, "boom")}
  \cup {Reply(429, h, b) : h \in {Null, "2", "soon"},
                           b \in {"", "quota", RetryInfoBody}}

HttpInit ==
  /\ StreamInit /\ MapIdle /\ FinishIdle /\ ReqIdle /\ PairIdle
  /\ CONFIG \in Configs
  /\ payload \in Payloads
  /\ pc = "idle"
  /\ attempt = 0
  /\ mapping = Undef
  /\ replies = <<>>
  /\ slept = <<>>
  /\ response = NoResponse

\* handleMessages without the test of the upstream API key before the call
HandleMessages_noKeyTest ==
  /\ pc = "idle"
  /\ mapping' = resolveMapping(CONFIG, payload)
  /\ IF mapping' = Undef
     THEN /\ response' =
               jsonResponse("Model not allowed", Undef, CONFIG.modelMappings,
                            400, NoSeconds)
          /\ pc' = "done"
     ELSE IF payload.hasImage
     THEN /\ response' =
               jsonResponse("Image content is not supported by this proxy.",
                            Undef, {}, 400, NoSeconds)
          /\ pc' = "done"
     ELSE /\ response' = response
          /\ pc' = "awaiting"
  /\ UNCHANGED <<CONFIG, payload, attempt, replies, slept>>
  /\ UNCHANGED <<streamVars, mapVars, finishVars, reqVars, pairVars>>

\* lines 169-211 and 275-308: handleMessages up to its first upstream call
HandleMessages ==
  /\ pc = "idle"
  /\ mapping' = resolveMapping(CONFIG, payload)
  /\ IF mapping' = Undef
     THEN /\ response' =
               jsonResponse("Model not allowed", Undef, CONFIG.modelMappings,
                            400, NoSeconds)
          /\ pc' = "done"
     ELSE IF payload.hasImage
     THEN /\ response' =
               jsonResponse("Image content is not supported by this proxy.",
                            Undef, {}, 400, NoSeconds)
          /\ pc' = "done"
     ELSE IF ~CONFIG.apiKey
     THEN /\ response' =
               jsonResponse("Missing upstream API key", Undef, {}, 401,
                            NoSeconds)
          /\ pc' = "done"
     ELSE /\ response' = response
          /\ pc' = "awaiting"
  /\ UNCHANGED <<CONFIG, payload, attempt, replies, slept>>
  /\ UNCHANGED <<streamVars, mapVars, finishVars, reqVars, pairVars>>

\* lines 216-256 and 293-332: the pending upstream call resolves
UpstreamReply ==
  /\ pc = "awaiting"
  /\ \E r \in Replies :
       /\ replies' = Append(replies, r)
       /\ \E after \in (IF CONFIG.provider = "gemini"
                        THEN geminiReply(r, attempt, slept, CONFIG.maxRetries)
                        ELSE openaiReply(r, attempt, slept)) :
            /\ pc' = after.pc
            /\ attempt' = after.attempt
            /\ slept' = after.slept
            /\ response' = after.response
  /\ UNCHANGED <<CONFIG, payload, mapping>>
  /\ UNCHANGED <<streamVars, mapVars, finishVars, reqVars, pairVars>>

\* lines 215-216 and 247: the sleep ends and the loop makes its next call
Retry ==
  /\ pc = "sleeping"
  /\ attempt' = attempt + 1
  /\ pc' = "awaiting"
  /\ UNCHANGED <<CONFIG, payload, mapping, replies, slept, response>>
  /\ UNCHANGED <<streamVars, mapVars, finishVars, reqVars, pairVars>>

HttpNext == HandleMessages \/ UpstreamReply \/ Retry

SpecHttp == HttpInit /\ [][HttpNext]_vars

----------------------------------------------------------------------------
(* Two instances of createClaudeStream whose reads interleave *)

\* number of lines the two inbound streams deliver together
MaxPairLines == 2

PairLines ==
  { Frame("resp_1", <<>>),
    Frame(Undef, <<Msg(<<TextBlock("hi")>>, Undef)>>),
    Frame("resp_2", <<FunctionCall("call_2", "g")>>),
    Frame("resp_1", <<WebSearchCall(Undef), WebSearchResult("ws_1", "found")>>),
    Frame(Undef, <<Msg(<<WebSearchCall("ws_1"),
                         WebSearchResult(Undef, Undef)>>, Undef)>>),
    Line("object", [Json EXCEPT !.type = "response.completed",
                                !.stop_reason = "stop", !.usage = Usage57]),
    Line("done", Json), Line("null", Json) }

PairInit ==
  /\ StreamInit /\ MapIdle /\ FinishIdle /\ ReqIdle /\ HttpIdle
  /\ conns = [c \in Instances |-> NewConn]
  /\ schedule = <<>>

\* a read of instance c delivers one line
ConnRead(c) ==
  /\ conns[c].engine.status = "reading"
  /\ Len(conns[1].delivered) + Len(conns[2].delivered) < MaxPairLines
  /\ \E l \in PairLines : conns' = stepConn(conns, c, <<l, NL>>)
  /\ schedule' = Append(schedule, c)
  /\ UNCHANGED <<streamVars, mapVars, finishVars, reqVars, httpVars>>

\* the inbound stream of instance c ends
ConnEnd(c) ==
  /\ conns[c].engine.status = "reading"
  /\ conns' = [conns EXCEPT ![c] = connEnd(conns[c])]
  /\ schedule' = Append(schedule, c)
  /\ UNCHANGED <<streamVars, mapVars, finishVars, reqVars, httpVars>>

PairNext == \E c \in Instances : ConnRead(c) \/ ConnEnd(c)

SpecPair == PairInit /\ [][PairNext]_vars

----------------------------------------------------------------------------
(* Properties of createClaudeStream *)

Positions(e) == {p \in 1..Len(out) : out[p].event = e}

Count(e) == Cardinality(Positions(e))

Starts == Positions("content_block_start")

Stops == Positions("content_block_stop")

\* the positions after p of the events that must not come before the
\* content_block_stop of the block started at p
Closers(p) ==
  {q \in p + 1..Len(out) :
     out[q].event \in {"content_block_start", "message_delta", "message_stop"}}

Least(S) == CHOOSE q \in S : \A r \in S : q <= r

\* the lines the loop over lines has handled: the delivered lines up to the
\* first one that ended the loop
Processed ==
  LET ends == {i \in 1..Len(delivered) : delivered[i].kind \in {"done", "null"}}
  IN IF ends = {} THEN delivered ELSE SubSeq(delivered, 1, Least(ends))

\* C1: content_block_start events carry the indices 0, 1, 2, ... in the order
\* they are sent; at every point of the output at most one block is open and
\* no block is stopped that is not open; and the events between a
\* content_block_start with index i and the next content_block_start,
\* message_delta or message_stop hold exactly one content_block_stop, which
\* has index i
C1_BlockOrdering ==
  /\ \A p \in Starts : out[p].index = Cardinality({q \in Starts : q < p})
  /\ \A k \in 0..Len(out) :
       Cardinality({p \in Starts : p <= k})
         - Cardinality({p \in Stops : p <= k}) \in {0, 1}
  /\ \A p \in Starts :
       Closers(p) # {} =>
         LET between == {r \in p + 1..Least(Closers(p)) - 1 :
                           out[r].event = "content_block_stop"}
         IN /\ Cardinality(between) = 1
            /\ \A r \in between : out[r].index = out[p].index
  /\ status = "closed" => Count("content_block_start") = Count("content_block_stop")

\* a text block, then a function-call block, then the end of the inbound
\* stream: two start/stop pairs before the closing events
C1_Witness ==
  /\ status = "closed"
  /\ Len(delivered) = 2
  /\ Count("content_block_start") = 2
  /\ \E p, q \in Starts :
       /\ p < q
       /\ out[p].block_type = "text" /\ out[q].block_type = "tool_use"
       /\ \E r \in Stops : p < r /\ r < q /\ out[r].index = 0
       /\ \E r \in Stops : q < r /\ out[r].index = 1

\* C2: message_delta and message_stop are sent at most once, nothing is sent
\* after message_stop (so the lines after [DONE] emit nothing), they are sent
\* only by the termination that closes the output stream, and a closed
\* output stream ends with message_delta immediately followed by message_stop
C2_TerminatesOnce ==
  /\ Count("message_delta") <= 1
  /\ Count("message_stop") <= 1
  /\ \A p \in Positions("message_stop") : p = Len(out)
  /\ \A p \in Positions("message_delta") : p = Len(out) - 1
  /\ Count("message_stop") = 1 <=> status = "closed"
  /\ status = "closed" =>
       /\ Len(out) >= 2
       /\ out[Len(out) - 1].event = "message_delta"
       /\ out[Len(out)].event = "message_stop"

\* the output stream is closed by a [DONE] that further frames follow
C2_Witness ==
  /\ status = "closed"
  /\ \E i \in 1..Len(delivered) - 1 :
       /\ delivered[i].kind = "done"
       /\ delivered[i + 1].kind = "object"
       /\ delivered[i + 1].json.output # <<>>

\* C18 (as claimed): when reading the inbound stream has failed, the engine
\* has closed the open block, sent message_delta and message_stop and closed
\* the output stream
C18_ReadErrorFinalizes ==
  readFailed =>
    /\ status = "closed"
    /\ Cardinality(Starts) = Cardinality(Stops)
    /\ Len(out) >= 2
    /\ out[Len(out) - 1].event = "message_delta"
    /\ out[Len(out)].event = "message_stop"

\* an instance that reads the given lines with no other instance running
RECURSIVE Replay(_, _)
Replay(conn, lines) ==
  IF lines = <<>> THEN conn
  ELSE Replay(connRead(conn, <<lines[1], NL>>), Tail(lines))

Alone(lines, ended) ==
  IF ended THEN connEnd(Replay(NewConn, lines)) ELSE Replay(NewConn, lines)

C3_ReachesTerminalEvent ==
  (sentMessageStart /\ status # "reading") =>
    /\ status = "closed"
    /\ Len(out) >= 1 /\ out[Len(out)].event = "message_stop"

\* C4 (as claimed): message_start is sent exactly once whenever content is
\* sent, before every content_block_* and message_delta event, and carries
\* the id of the first processed frame that has one
C4_MessageStartFirst ==
  LET content == {p \in 1..Len(out) :
                    out[p].event \in {"content_block_start",
                                      "content_block_delta",
                                      "content_block_stop"}}
      withId == {i \in 1..Len(Processed) :
                   Processed[i].kind = "object"
                   /\ Truthy(Processed[i].json.id)}
  IN /\ Count("message_start") <= 1
     /\ content # {} =>
          /\ Count("message_start") = 1
          /\ \A p \in content \cup Positions("message_delta") :
               \E q \in Positions("message_start") : q < p
     /\ \A q \in Positions("message_start") :
          withId # {} /\ out[q].id = Processed[Least(withId)].json.id

\* the output items of all processed frames
RECURSIVE ItemsOf(_)
ItemsOf(lines) ==
  IF lines = <<>> THEN <<>>
  ELSE (IF lines[1].kind = "object" THEN lines[1].json.output ELSE <<>>)
       \o ItemsOf(Tail(lines))

\* C5 (as claimed): whenever web-search items were seen, the closing
\* message_delta carries server_tool_use.web_search_requests, equal to the
\* count the non-streaming translator computes for the same items, whichever
\* end condition closed the stream
C5_DeltaUsageEnriched ==
  (status = "closed" /\ countWebSearchRequests(ItemsOf(Processed)) > 0) =>
    \A p \in Positions("message_delta") :
      out[p].usage.web_search_requests
        = countWebSearchRequests(ItemsOf(Processed))

\* the content kinds of lines 849-980 as the block types they are to open
BlockTypeOf(block) ==
  IF (block.type = "text" \/ block.type = "output_text") /\ Truthy(block.text)
  THEN "text"
  ELSE IF block.type = "function_call" /\ Truthy(block.call_id)
          /\ Truthy(block.name)
  THEN "tool_use"
  ELSE IF block.type = "web_search_call" THEN "tool_use"
  ELSE IF block.type = "web_search_result" THEN "tool_result"
  ELSE IF block.type = "reasoning" \/ block.type = "output_reasoning"
  THEN "thinking"
  ELSE IF block.type = "redacted_reasoning" /\ Truthy(block.data)
  THEN "redacted_thinking"
  ELSE Undef

\* the renderable contents of a sequence of items, nested or standalone, in
\* order, as block types
RECURSIVE Renderable(_)
Renderable(items) ==
  IF items = <<>> THEN <<>>
  ELSE (IF items[1].type = "message" THEN Renderable(items[1].content)
        ELSE IF BlockTypeOf(items[1]) # Undef THEN <<BlockTypeOf(items[1])>>
        ELSE <<>>)
       \o Renderable(Tail(items))

StartTypes ==
  LET ps == Starts
  IN [k \in 1..Cardinality(ps) |->
        out[CHOOSE p \in ps : Cardinality({q \in ps : q < p}) = k - 1]
          .block_type]

\* C9 (as claimed): every renderable content of the processed frames, nested
\* in a message item or standalone, opens one block of the matching type
C9_EveryKindOpensBlock == StartTypes = Renderable(ItemsOf(Processed))

\* whether lines 850-915 open a block for a content nested in a message
\* item, and lines 916-980 for a standalone item
OpensNested(block) ==
  BlockTypeOf(block) # Undef /\ block.type # "function_call"

OpensTop(item) ==
  BlockTypeOf(item) # Undef /\ item.type \notin {"text", "output_text"}

\* the contents of a sequence of items that open a block, in order
RECURSIVE Opening(_)
Opening(items) ==
  IF items = <<>> THEN <<>>
  ELSE (IF items[1].type = "message"
        THEN SelectSeq(items[1].content, OpensNested)
        ELSE IF OpensTop(items[1]) THEN <<items[1]>> ELSE <<>>)
       \o Opening(Tail(items))

\* the payloads a content has to offer, as the types of their deltas
PayloadsOf(block) ==
  LET sig == IF Truthy(block.signature) THEN <<"signature_delta">> ELSE <<>>
  IN IF BlockTypeOf(block) = "text" THEN <<"text_delta">>
     ELSE IF block.type = "function_call"
     THEN (IF Truthy(block.arguments) THEN <<"input_json_delta">> ELSE <<>>)
     ELSE IF block.type = "web_search_call"
     THEN (IF Truthy(block.arguments)
              \/ Len(buildWebSearchInput(block).fields) > 0
           THEN <<"input_json_delta">> ELSE <<>>)
     ELSE IF block.type = "web_search_result"
     THEN (IF Truthy(Coalesce(block.results,
                       Coalesce(block.content,
                         Coalesce(block.output, block.text))))
           THEN <<"text_delta">> ELSE <<>>)
     ELSE IF block.type = "redacted_reasoning"
     THEN <<"redacted_thinking_delta">> \o sig
     ELSE (IF Truthy(getReasoningText(block)) THEN <<"thinking_delta">>
           ELSE <<>>) \o sig

\* the types of the content_block_delta events sent with index idx, in order
RECURSIVE DeltaTypes(_, _)
DeltaTypes(events, idx) ==
  IF events = <<>> THEN <<>>
  ELSE (IF events[1].event = "content_block_delta" /\ events[1].index = idx
        THEN <<events[1].delta_type>> ELSE <<>>)
       \o DeltaTypes(Tail(events), idx)

\* no processed frame is an incremental update (a frame whose type contains
\* "reasoning" or "redacted" and that carries a delta)
NoUpdateFrames ==
  \A i \in 1..Len(Processed) :
    Processed[i].kind = "object" =>
      ~(IncludesReasoning(Processed[i].json.type)
        /\ Processed[i].json.delta.present)

\* C22 (as claimed): each content that opens a block emits exactly one
\* content_block_delta for that block while it is handled
C22_AsClaimed ==
  NoUpdateFrames =>
    \A p \in Starts : Len(DeltaTypes(out, out[p].index)) = 1

\* C22 (amended): each content that opens a block emits, while it is
\* handled, one content_block_delta for each payload it has and in this
\* order: its text, arguments, web-search input or result text if that is
\* not empty, then its signature if it has one; so a text block has exactly
\* one delta, a thinking or redacted_thinking block with a signature has
\* two, and a block without payload has none
C22_DeltaPerPayload ==
  NoUpdateFrames =>
    LET opening == Opening(ItemsOf(Processed))
    IN /\ Cardinality(Starts) = Len(opening)
       /\ \A k \in 1..Len(opening) :
            DeltaTypes(out, k - 1) = PayloadsOf(opening[k])

\* a thinking block with text and signature and a function call without
\* arguments have each opened a block
C22_Witness ==
  /\ NoUpdateFrames
  /\ \E p \in Starts :
       /\ out[p].block_type = "thinking"
       /\ DeltaTypes(out, out[p].index)
            = <<"thinking_delta", "signature_delta">>
  /\ \E p \in Starts :
       /\ out[p].block_type = "tool_use" /\ out[p].name = "h"
       /\ DeltaTypes(out, out[p].index) = <<>>

\* a frame whose type contains "reasoning" or "redacted" and that carries a
\* delta
IsUpdateFrame(line) ==
  /\ line.kind = "object"
  /\ IncludesReasoning(line.json.type)
  /\ line.json.delta.present

\* the step handles exactly one line, an update frame, with a block open
UpdateStep ==
  /\ status = "reading"
  /\ pendingContentBlockStop # NoPending
  /\ Len(delivered') = Len(delivered) + 1
  /\ IsUpdateFrame(delivered'[Len(delivered')])

\* C23: a step that handles an update frame while a block is open sends
\* content_block_delta events with the index of the open block and nothing
\* else, and leaves the block index, the open-block marker, the stop reason,
\* the usage, the message_start flag, the message id and the web-search ids
\* and count as they were, whatever else the frame carries
C23_UpdateFrameOnlyDeltas ==
  [][UpdateStep =>
       /\ Len(out') >= Len(out)
       /\ SubSeq(out', 1, Len(out)) = out
       /\ \A p \in Len(out) + 1..Len(out') :
            /\ out'[p].event = "content_block_delta"
            /\ out'[p].index = pendingContentBlockStop
       /\ UNCHANGED <<contentBlockIndex, pendingContentBlockStop, stopReason,
                      usage, sentMessageStart, messageId, webSearchCallIds,
                      webSearchFallbackCount, status>>]_vars

\* a block was open when an update frame that carries stop_reason, usage and
\* output items was handled: its two deltas are the last events sent
C23_Witness ==
  /\ Len(delivered) = 2
  /\ delivered[1].kind = "object"
  /\ IsUpdateFrame(delivered[2])
  /\ delivered[2].json.output # <<>>
  /\ delivered[2].json.stop_reason # Undef
  /\ delivered[2].json.usage.present
  /\ pendingContentBlockStop = 0
  /\ contentBlockIndex = 1
  /\ Len(out) >= 2
  /\ out[Len(out) - 1].delta_type = "redacted_thinking_delta"
  /\ out[Len(out)].delta_type = "signature_delta"
  /\ usage = NoUsage

\* the locals and the output of an engine that has read the given complete
\* lines and then stopped as this run has: by a line, by a failed read, by
\* the end of the inbound stream, or not yet
EngineAfter(lines) ==
  LET e == processLines(NewEngine, lines, 1)
  IN IF e.status # "reading" THEN e
     ELSE IF readFailed THEN [e EXCEPT !.status = "errored"]
     ELSE IF status = "closed"
     THEN (IF LineOf(buffer).kind = "done" THEN finishTrailingDone(e)
           ELSE finishEnd(e))
     ELSE e

Parsable(line) == line.kind # "bad"

\* C24: the events sent and the locals of the engine are those of an engine
\* that has read the same lines without the data frames whose payload does
\* not parse
C24_UnparsableSkipped == Engine = EngineAfter(SelectSeq(delivered, Parsable))

\* an unparsable frame came before a frame that sent events
C24_Witness ==
  /\ Len(delivered) = 2
  /\ delivered[1].kind = "bad"
  /\ delivered[2].kind = "object"
  /\ Count("content_block_start") >= 1
  /\ status = "closed"

\* the stop_reason fields of a frame: the top-level one, then those of the
\* output items in order
RECURSIVE ItemStops(_)
ItemStops(items) ==
  IF items = <<>> THEN <<>>
  ELSE (IF items[1].stop_reason # Undef THEN <<items[1].stop_reason>>
        ELSE <<>>) \o ItemStops(Tail(items))

StopFields(line) ==
  IF line.kind # "object" THEN <<>>
  ELSE (IF line.json.stop_reason # Undef THEN <<line.json.stop_reason>>
        ELSE <<>>) \o ItemStops(line.json.output)

\* whether the i-th processed line was handled as an incremental update of
\* the block open at that time
HandledAsUpdate(i) ==
  /\ IsUpdateFrame(Processed[i])
  /\ processLines(NewEngine, SubSeq(Processed, 1, i - 1), 1)
       .pendingContentBlockStop # NoPending

\* the stop_reason fields and the usage fields of the processed lines for
\* which counted(i) holds, in order
RECURSIVE StopsSeen(_, _)
StopsSeen(counted(_), i) ==
  IF i > Len(Processed) THEN <<>>
  ELSE (IF counted(i) THEN StopFields(Processed[i]) ELSE <<>>)
       \o StopsSeen(counted, i + 1)

RECURSIVE UsagesSeen(_, _)
UsagesSeen(counted(_), i) ==
  IF i > Len(Processed) THEN <<>>
  ELSE (IF counted(i) /\ Processed[i].kind = "object"
           /\ Processed[i].json.usage.present
        THEN <<Processed[i].json.usage>> ELSE <<>>)
       \o UsagesSeen(counted, i + 1)

\* the message_delta carries the mapping of the last of stops, or null, and
\* the token counts of the mapping of the last of usages, or none
DeltaCarries(stops, usages) ==
  LET expected == IF usages = <<>> THEN NoClaudeUsage
                  ELSE mapOpenAIUsageToClaude(usages[Len(usages)])
  IN \A p \in Positions("message_delta") :
       /\ out[p].stop_reason
            = (IF stops = <<>> THEN Null
               ELSE mapFinishReason(stops[Len(stops)]))
       /\ out[p].usage.input_tokens = expected.input_tokens
       /\ out[p].usage.output_tokens = expected.output_tokens
       /\ out[p].usage.reasoning_tokens = expected.reasoning_tokens

EveryLine(i) == TRUE

NotAnUpdate(i) == ~HandledAsUpdate(i)

\* C25 (as claimed): the message_delta carries the mapping of the most
\* recent stop_reason field and the token counts of the most recent usage
\* field of all processed frames
C25_AsClaimed ==
  DeltaCarries(StopsSeen(EveryLine, 1), UsagesSeen(EveryLine, 1))

\* C25 (amended): the message_delta carries the mapping of the most recent
\* stop_reason field (top-level first, then the output items in order; null
\* if there is none) and the token counts of the mapping of the most recent
\* usage field (none if there is none) of the processed frames that were
\* not handled as an incremental update of an open block
C25_FinalDelta ==
  DeltaCarries(StopsSeen(NotAnUpdate, 1), UsagesSeen(NotAnUpdate, 1))

\* two frames with different stop_reason fields, the second one with a
\* usage field, then the end of the stream
C25_Witness ==
  /\ status = "closed"
  /\ Len(Processed) = 2
  /\ StopFields(Processed[1]) = <<"tool_calls">>
  /\ StopFields(Processed[2]) = <<"stop">>
  /\ UsagesSeen(NotAnUpdate, 1) = <<Usage57>>
  /\ \E p \in Positions("message_delta") :
       out[p].stop_reason = "end_turn" /\ out[p].usage.output_tokens = 7

ObjectPayload(line) == line.kind \notin {"null", "scalar"}

\* C27 (as claimed): a data frame whose payload is null, a number or a
\* string sends no event and does not abort: the engine is never errored
\* unless a read has failed, and the events sent and the locals are those of
\* an engine that has read the same lines without these frames
C27_NonObjectTolerated ==
  /\ status = "errored" => readFailed
  /\ Engine = EngineAfter(SelectSeq(delivered, ObjectPayload))

\* C28 (as claimed): every content_block_delta has the index of a block
\* started before it and not stopped in between, and a thinking_delta,
\* redacted_thinking_delta or signature_delta goes to a block started with
\* type thinking or redacted_thinking
C28_DeltasToOpenThinking ==
  \A q \in Positions("content_block_delta") :
    \E p \in Starts :
      /\ p < q
      /\ out[p].index = out[q].index
      /\ \A r \in Stops : ~(p < r /\ r < q /\ out[r].index = out[p].index)
      /\ out[q].delta_type \in {"thinking_delta", "redacted_thinking_delta",
                                "signature_delta"}
           => out[p].block_type \in {"thinking", "redacted_thinking"}

\* C29: however the inbound text was cut into chunks, the complete lines,
\* the text left in buffer, the events sent and the locals are those of an
\* engine that has read the whole text in one chunk, and the events and
\* locals are also those of an engine that has read it one line a chunk
C29_ChunkingIrrelevant ==
  LET sp == splitLines(inbound, 1, [lines |-> <<>>, cur |-> <<>>])
  IN /\ delivered = sp.lines
     /\ buffer = sp.cur
     /\ Engine = EngineAfter(sp.lines)
     /\ status = "reading" => Engine = Replay(NewConn, sp.lines).engine

\* a frame that opens a block has come in several chunks, one of which
\* ended inside the frame
C29_Witness ==
  /\ cut
  /\ Len(inbound) = 2
  /\ inbound[1].kind = "object"
  /\ inbound[2] = NL
  /\ buffer = <<>>
  /\ Count("content_block_start") >= 1

\* C30 (as claimed): when the inbound stream ends with a data frame that no
\* newline follows, the events sent and the locals are those of an engine
\* that has handled this frame as a line before it sent the closing events
C30_TrailingFrameProcessed ==
  (status = "closed" /\ LineOf(buffer).kind = "object"
   /\ processLines(NewEngine, delivered, 1).status = "reading")
    => Engine = finishEnd(processLines(NewEngine,
                                       Append(delivered, LineOf(buffer)), 1))

----------------------------------------------------------------------------
(* Properties of mapOpenAIToClaude *)

ToolUses == {k \in 1..Len(claude.content) : claude.content[k].type = "tool_use"}

\* C6 (as claimed): no tool_use block of the result comes from a
\* function-call without a call id or without a name, so every tool_use block
\* has an id and a name
C6_NoToolUseWithoutIdOrName ==
  mapped => \A k \in ToolUses :
              Truthy(claude.content[k].id) /\ Truthy(claude.content[k].name)

\* the web-search call/result items of a response, nested and standalone
RECURSIVE WebSearchItems(_)
WebSearchItems(items) ==
  IF items = <<>> THEN <<>>
  ELSE (IF items[1].type = "message" THEN WebSearchItems(items[1].content)
        ELSE IF IsWebSearch(items[1]) THEN <<items[1]>> ELSE <<>>)
       \o WebSearchItems(Tail(items))

\* the call ids the items carry in call_id or id
CarriedIds(items) ==
  {OrElse(items[k].call_id, items[k].id) : k \in 1..Len(items)}
    \ {Undef, Null, ""}

\* C7 (as claimed): the counter is the number of distinct call ids among the
\* web-search items, and the number of the items when none carries an id
C7_WebSearchCount ==
  LET ws == WebSearchItems(openai.output)
      expected == IF CarriedIds(ws) # {} THEN Cardinality(CarriedIds(ws))
                  ELSE Len(ws)
  IN mapped =>
       claude.usage.web_search_requests
         = (IF expected > 0 THEN expected ELSE UndefNum)

IsMessage(item) == item.type = "message"

\* the blocks a message item's content is to contribute (lines 344-362)
NestedMapped(block) ==
  \/ block.type \in {"text", "output_text"} /\ Truthy(block.text)
  \/ block.type = "function_call" /\ Truthy(block.call_id)
       /\ Truthy(block.name)
  \/ block.type \in {"web_search_call", "web_search_result", "reasoning",
                     "output_reasoning"}
  \/ block.type = "redacted_reasoning" /\ Truthy(block.data)

\* the standalone items that are to contribute (lines 367-384)
TopMapped(item) ==
  \/ item.type \in {"function_call", "web_search_call", "web_search_result",
                    "reasoning", "output_reasoning"}
  \/ item.type = "redacted_reasoning" /\ Truthy(item.data)

\* block is the mapping of src
MapsTo(src, block) ==
  \/ /\ src.type \in {"text", "output_text"}
     /\ block.type = "text" /\ block.text = src.text
  \/ /\ src.type = "function_call"
     /\ block.type = "tool_use" /\ block.id = src.call_id
     /\ block.name = src.name
  \/ /\ src.type = "web_search_call"
     /\ block.type = "tool_use" /\ block.name = "web_search"
  \/ /\ src.type = "web_search_result"
     /\ block.type = "tool_result"
     /\ block.content = Coalesce(src.results, "")
  \/ /\ src.type \in {"reasoning", "output_reasoning"}
     /\ block.type = "thinking"
     /\ block.thinking = Coalesce(src.text,
                           Coalesce(src.reasoning, Coalesce(src.summary, "")))
  \/ /\ src.type = "redacted_reasoning"
     /\ block.type = "redacted_thinking" /\ block.data = src.data

MessageSources ==
  IF SelectSeq(openai.output, IsMessage) = <<>> THEN <<>>
  ELSE SelectSeq(SelectSeq(openai.output, IsMessage)[1].content, NestedMapped)

TopSources == SelectSeq(openai.output, TopMapped)

\* C10: the content of the result is the mapped blocks of the message item's
\* content in their order, followed by the mapped standalone items in their
\* order, each exactly once
C10_MergedContent ==
  mapped =>
    /\ Len(claude.content) = Len(MessageSources) + Len(TopSources)
    /\ \A k \in 1..Len(claude.content) :
         MapsTo((MessageSources \o TopSources)[k], claude.content[k])

\* a response with two mapped nested blocks of different kinds and a message
\* item between two mapped standalone items of different kinds
C10_Witness ==
  /\ mapped
  /\ Len(MessageSources) = 2
  /\ MessageSources[1].type # MessageSources[2].type
  /\ Len(TopSources) = 2
  /\ TopSources[1].type # TopSources[2].type
  /\ Len(openai.output) = 3 /\ openai.output[2].type = "message"

\* C11 (as claimed): the input of a tool_use block made from a function-call
\* holds no field whose value is the empty string
C11_EmptyArgumentsStripped ==
  mapped =>
    \A k \in ToolUses :
      claude.content[k].name # "web_search" =>
        \A f \in 1..Len(claude.content[k].input.fields) :
          claude.content[k].input.fields[f][2] # ""

\* the first of text, reasoning and summary that is a non-empty string
FirstNonEmpty(block) ==
  IF Truthy(block.text) THEN block.text
  ELSE IF Truthy(block.reasoning) THEN block.reasoning
  ELSE IF Truthy(block.summary) THEN block.summary
  ELSE ""

IsReasoningSource(block) ==
  \/ block.type \in {"reasoning", "output_reasoning"}
  \/ block.type = "redacted_reasoning" /\ Truthy(block.data)

IsThinking(block) == block.type \in {"thinking", "redacted_thinking"}

\* the reasoning blocks of the response in the order they are mapped
ReasoningSources ==
  SelectSeq(MessageSources \o TopSources, IsReasoningSource)

\* C12 (as claimed): a reasoning or output_reasoning block becomes a thinking
\* block whose text is the first non-empty of text, reasoning and summary, a
\* redacted-reasoning block becomes a redacted_thinking block only if it has
\* data, which is unchanged, and the signature is carried only if present
C12_ReasoningToThinking ==
  LET thinking == SelectSeq(claude.content, IsThinking)
  IN mapped =>
       /\ Len(thinking) = Len(ReasoningSources)
       /\ \A k \in 1..Len(thinking) :
            LET src == ReasoningSources[k]
            IN /\ thinking[k].signature
                    = (IF Truthy(src.signature) THEN src.signature ELSE Undef)
               /\ IF src.type = "redacted_reasoning"
                  THEN /\ thinking[k].type = "redacted_thinking"
                       /\ thinking[k].data = src.data
                  ELSE /\ thinking[k].type = "thinking"
                       /\ thinking[k].thinking = FirstNonEmpty(src)

\* the output tokens a usage report carries: output_tokens or, failing
\* that, completion_tokens
ReportedOutputTokens ==
  IF openai.usage.present
  THEN CoalesceNum(openai.usage.output_tokens, openai.usage.completion_tokens)
  ELSE UndefNum

\* C16 (as claimed): stop_reason is max_tokens when the model name contains
\* a key of the table and the reported output tokens reach its maxOutput,
\* and the mapped stop_reason of the message item otherwise
C16_MaxTokensOverride ==
  LET maxOutput == getDownstreamConfig(model)
      m == FindMessage(openai.output)
  IN mapped =>
       claude.stop_reason
         = (IF maxOutput # 0 /\ ReportedOutputTokens # UndefNum
               /\ ReportedOutputTokens >= maxOutput
            THEN "max_tokens"
            ELSE IF m # 0 THEN mapFinishReason(openai.output[m].stop_reason)
            ELSE Null)

----------------------------------------------------------------------------
(* Properties of mapClaudeToOpenAI *)

\* the pieces of the thinking, data and signature fields of the request
RECURSIVE ThinkingPieces(_)
ThinkingPieces(blocks) ==
  IF blocks = <<>> THEN {}
  ELSE (IF blocks[1].type \in {"thinking", "redacted_thinking"}
        THEN {blocks[1].thinking[k] : k \in 1..Len(blocks[1].thinking)}
             \cup {blocks[1].data[k] : k \in 1..Len(blocks[1].data)}
             \cup {blocks[1].signature}
        ELSE {})
       \cup ThinkingPieces(Tail(blocks))

IsTextOrToolUse(block) == block.type \in {"text", "tool_use"}

\* the line of a text or tool_use block
LineOfBlock(block) ==
  IF block.type = "text" THEN block.text
  ELSE <<"[tool_call id=", block.id, " name=", block.name, " args=",
         StringifyInput(block.input), "]">>

RECURSIVE LinesOfBlocks(_)
LinesOfBlocks(blocks) ==
  IF blocks = <<>> THEN <<>>
  ELSE <<LineOfBlock(blocks[1])>> \o LinesOfBlocks(Tail(blocks))

IsStructuredAssistant(msg) ==
  msg.role = "assistant" /\ msg.content.kind = "blocks"

IsAssistant(x) == x.role = "assistant"

\* the content to be forwarded for each assistant message with structured
\* content whose text and tool_use lines are not all empty
RECURSIVE ForwardedLines(_)
ForwardedLines(msgs) ==
  IF msgs = <<>> THEN <<>>
  ELSE LET joined == Join(LinesOfBlocks(SelectSeq(msgs[1].content.blocks,
                                                  IsTextOrToolUse)), <<LF>>)
       IN (IF joined # <<>> THEN <<joined>> ELSE <<>>)
          \o ForwardedLines(Tail(msgs))

\* C13: no input item holds a piece of a thinking or redacted_thinking
\* block, and when every assistant message has structured content the
\* assistant items are, in order, the joined text and tool_use lines of
\* those messages
C13_ThinkingNotForwarded ==
  reqMapped =>
    /\ \A m \in 1..Len(req.messages), i \in 1..Len(openaiReq.input) :
         \A k \in 1..Len(openaiReq.input[i].content) :
           openaiReq.input[i].content[k]
             \notin ThinkingPieces(req.messages[m].content.blocks)
    /\ (\A m \in 1..Len(req.messages) :
          IsAssistant(req.messages[m]) => IsStructuredAssistant(req.messages[m]))
       => LET items == SelectSeq(openaiReq.input, IsAssistant)
              lines == ForwardedLines(SelectSeq(req.messages, IsAssistant))
          IN /\ Len(items) = Len(lines)
             /\ \A i \in 1..Len(items) : items[i].content = lines[i]

\* the example of the claim: text "answer" beside a thinking and a
\* redacted_thinking block gives one assistant item with content "answer"
C13_Witness ==
  /\ reqMapped
  /\ req.messages
       = <<Message("assistant",
                   BlockContent(<<TextOf(Str("answer")), Thinking(Str("trace")),
                                  RedactedThinking(Str("REDACTED"),
                                                   "sig_2")>>))>>
  /\ openaiReq.input = <<Item("assistant", Str("answer"))>>

\* whether the text a message is to contribute is empty
EmptyMessage(msg) ==
  IF msg.content.kind = "string" THEN msg.content.text = <<>>
  ELSE IF msg.role = "user"
  THEN /\ \A k \in 1..Len(msg.content.blocks) :
            /\ msg.content.blocks[k].type # "tool_result"
            /\ msg.content.blocks[k].type = "text"
                 => msg.content.blocks[k].text = <<>>
  ELSE Join(LinesOfBlocks(SelectSeq(msg.content.blocks, IsTextOrToolUse)),
            <<LF>>) = <<>>

EmptySystem(system) ==
  \/ system.kind = "absent"
  \/ system.kind = "string" /\ system.text = <<>>
  \/ system.kind = "blocks"
       /\ \A k \in 1..Len(system.blocks) : system.blocks[k].text = <<>>

NonEmptyMessage(msg) == ~EmptyMessage(msg)

\* C14: no input item has empty content; an empty system prompt and an
\* empty message give no item; the items of the other messages follow the
\* system item in the order of their messages
C14_NoEmptyItems ==
  LET kept == SelectSeq(req.messages, NonEmptyMessage)
      sys == IF EmptySystem(req.system) THEN 0 ELSE 1
  IN reqMapped =>
       /\ \A i \in 1..Len(openaiReq.input) : openaiReq.input[i].content # <<>>
       /\ Len(openaiReq.input) = sys + Len(kept)
       /\ sys = 1 => openaiReq.input[1].role = "system"
       /\ \A i \in 1..Len(kept) : openaiReq.input[sys + i].role = kept[i].role

\* a request with a system prompt whose first message is empty and whose
\* second message is not
C14_Witness ==
  /\ reqMapped
  /\ ~EmptySystem(req.system)
  /\ Len(req.messages) = 2
  /\ EmptyMessage(req.messages[1]) /\ req.messages[1].role = "user"
  /\ ~EmptyMessage(req.messages[2]) /\ req.messages[2].role = "assistant"
  /\ Len(openaiReq.input) = 2

\* the token budget of the thinking directive: budget_tokens or, without
\* it, budget
BudgetOf(thinking) ==
  IF ~thinking.present THEN UndefNum
  ELSE CoalesceNum(thinking.budget_tokens, thinking.budget)

\* C15: reasoning.effort is the explicit effort string when the request has
\* a non-empty one, whatever the budget; otherwise, with a token budget b,
\* it is high for b >= 10000, medium for 5000 <= b < 10000 and low below;
\* without either the reasoning field is absent
C15_ReasoningEffort ==
  LET explicit == IF req.output_config.present THEN req.output_config.effort
                  ELSE Undef
      b == BudgetOf(req.thinking)
  IN reqMapped =>
       IF Truthy(explicit)
       THEN openaiReq.reasoning = [present |-> TRUE, effort |-> explicit]
       ELSE IF b # UndefNum
       THEN /\ openaiReq.reasoning.present
            /\ b >= 10000 => openaiReq.reasoning.effort = "high"
            /\ (b >= 5000 /\ b < 10000)
                 => openaiReq.reasoning.effort = "medium"
            /\ b < 5000 => openaiReq.reasoning.effort = "low"
       ELSE ~openaiReq.reasoning.present

\* a budget of exactly 10000 without an explicit effort has been mapped
C15_Witness ==
  /\ reqMapped
  /\ ~req.output_config.present
  /\ req.thinking.budget_tokens = 10000
  /\ openaiReq.reasoning.effort = "high"

\* the text of a text-only message: its string, or its text blocks run
\* together
MessageText(msg) == Join(TextsOfMessage(msg), <<>>)

\* the texts of the text blocks of a Front-Protocol content, run together
RECURSIVE ContentText(_)
ContentText(content) ==
  IF content = <<>> THEN ""
  ELSE (IF content[1].type = "text" THEN content[1].text ELSE "")
       \o ContentText(Tail(content))

\* what mapOpenAIToClaude has made of the response of the same shape: text
\* blocks only, whose texts run together are the text of the message
TextComesBack ==
  /\ \A k \in 1..Len(claude.content) : claude.content[k].type = "text"
  /\ ContentText(claude.content) = StringOf(MessageText(req.messages[1]))

\* C21 (as claimed): a text-only message becomes an input item whose content
\* is the text of the message, and the response that carries the same text
\* as output_text blocks becomes text blocks whose texts run together are
\* that text
C21_AsClaimed ==
  /\ reqMapped =>
       /\ Len(openaiReq.input) = 1
       /\ openaiReq.input[1].content = MessageText(req.messages[1])
  /\ mapped => TextComesBack

\* C21 (amended): a text-only message becomes at most one input item, of the
\* role of the message; its content is the text of the message for string
\* content and for a user message, and the text blocks joined by newlines
\* for an assistant message with block content; there is no item when that
\* content is empty. The response that carries the same text as output_text
\* blocks becomes text blocks only, whose texts run together are the text
\* of the message
C21_RoundTrip ==
  LET msg == req.messages[1]
      expected == IF msg.role = "assistant" /\ msg.content.kind = "blocks"
                  THEN Join(TextsOfMessage(msg), <<LF>>)
                  ELSE MessageText(msg)
  IN /\ reqMapped =>
          openaiReq.input = (IF expected = <<>> THEN <<>>
                             ELSE <<Item(msg.role, expected)>>)
     /\ mapped => TextComesBack

\* an assistant message of two non-empty text blocks has gone both ways
C21_Witness ==
  /\ mapped
  /\ req.messages[1].role = "assistant"
  /\ req.messages[1].content.kind = "blocks"
  /\ Len(req.messages[1].content.blocks) = 2
  /\ \A k \in 1..2 : req.messages[1].content.blocks[k].text # <<>>
  /\ Len(openaiReq.input) = 1
  /\ Len(claude.content) = 2

----------------------------------------------------------------------------
(* Properties of handleMessages *)

\* the upstream calls made so far
UpstreamCalls == Len(replies) + (IF pc = "awaiting" THEN 1 ELSE 0)

\* C17 (as claimed): a request that names a downstream model without a
\* configured mapping makes no upstream call and is answered with status 400
\* and the list of the allowed models
C17_UnknownModelRejected ==
  (Truthy(payload.model) /\ payload.model \notin CONFIG.modelMappings
   /\ pc # "idle")
    => /\ UpstreamCalls = 0
       /\ pc = "done"
       /\ response.status = 400
       /\ response.allowedModels = CONFIG.modelMappings

\* the handler has answered with the given status and has made no upstream
\* call
RejectedWith(code) ==
  /\ pc = "done"
  /\ UpstreamCalls = 0
  /\ response.status = code

\* C26 (as claimed): a request with an image block is answered 400 and a
\* request that arrives while the upstream API key is missing is answered
\* 401, both without an upstream call
C26_AsClaimed ==
  pc # "idle" =>
    /\ payload.hasImage => RejectedWith(400)
    /\ ~CONFIG.apiKey => RejectedWith(401)

\* C26 (amended): a request with an image block is answered 400; a request
\* that arrives while the upstream API key is missing is answered 401 unless
\* it has an image block or its model has no mapping, and then it is
\* answered 400; in all these cases there is no upstream call
C26_RejectedAtBoundary ==
  pc # "idle" =>
    /\ payload.hasImage => RejectedWith(400)
    /\ ~CONFIG.apiKey =>
         IF payload.hasImage \/ resolveMapping(CONFIG, payload) = Undef
         THEN RejectedWith(400) ELSE RejectedWith(401)

\* a request without image blocks, for a mapped model, has been answered 401
C26_Witness ==
  /\ RejectedWith(401)
  /\ ~CONFIG.apiKey
  /\ ~payload.hasImage
  /\ mapping # Undef
  /\ response.error = "Missing upstream API key"

\* the delay a 429 reply carries: the structured retry delay or the
\* retry-after header; NoSeconds when it carries neither
DelayOf(r) ==
  IF parseGeminiRetryDelaySeconds(r.body) # NoSeconds
  THEN parseGeminiRetryDelaySeconds(r.body)
  ELSE parseRetryAfterSeconds(r.retry_after)

Is429(r) == r.kind = "response" /\ r.status = 429

\* C19 (as claimed): a 429 reply is retried after the delay it carries
\* while retries remain, the upstream calls never exceed maxRetries + 1, no
\* other reply is retried, and the 429 that exhausts the retries is returned
\* with its status and body
C19_RetryOn429 ==
  /\ UpstreamCalls <= CONFIG.maxRetries + 1
  /\ \A i \in 1..Len(replies) :
       /\ i < UpstreamCalls => Is429(replies[i])
       /\ i <= Len(slept) => slept[i] = DelayOf(replies[i])
       /\ (Is429(replies[i]) /\ i <= CONFIG.maxRetries)
            => pc = "sleeping" \/ UpstreamCalls > i
  /\ (pc \in {"done", "threw"} /\ replies # <<>>
      /\ Is429(replies[Len(replies)]))
       => /\ pc = "done"
          /\ response.status = 429
          /\ response.details = replies[Len(replies)].body

----------------------------------------------------------------------------
(* Properties of mapFinishReason *)

\* C8 (as claimed): stop, length and tool_calls map to end_turn, max_tokens
\* and tool_use, null maps to null, and every other string, the empty string
\* included, is returned unchanged
C8_AsClaimed ==
  \A i \in 1..Len(finished) :
    finished[i] = (IF reasons[i] = "stop" THEN "end_turn"
                   ELSE IF reasons[i] = "length" THEN "max_tokens"
                   ELSE IF reasons[i] = "tool_calls" THEN "tool_use"
                   ELSE reasons[i])

\* C8 (amended): stop, length and tool_calls map to end_turn, max_tokens and
\* tool_use, null and the empty string map to null, and every other string
\* is returned unchanged
C8_FinishReason ==
  \A i \in 1..Len(finished) :
    finished[i] = (IF reasons[i] = "stop" THEN "end_turn"
                   ELSE IF reasons[i] = "length" THEN "max_tokens"
                   ELSE IF reasons[i] = "tool_calls" THEN "tool_use"
                   ELSE IF reasons[i] = "" THEN Null
                   ELSE reasons[i])

\* the empty string and an unknown reason have been mapped
C8_Witness ==
  /\ Len(finished) = 2
  /\ reasons = <<"", "custom_reason">>

====
